---- MODULE Spec2Model ----
(***************************************************************************)
(* Sawt restaurant ordering system: the class-based Orchestrator with its  *)
(* explicit FSM (sawt/agents, sawt/state, sawt/db/repositories) and the    *)
(* LangGraph workflow with its in-process tools (sawt/graph, sawt/tools).  *)
(*                                                                         *)
(* Text is modelled as a sequence of one-character strings.  Python's None *)
(* is the string "None" for string-valued fields, NullId for integer ids   *)
(* and the empty sequence for text (the code only tests such values for    *)
(* truthiness, where None and "" agree).  Money is in whole riyals.        *)
(***************************************************************************)
EXTENDS Integers, Sequences, FiniteSets, TLC

None == "None"
NullId == 0

(***************************************************************************)
(* Bounds of the model.                                                    *)
(***************************************************************************)
MaxCart == 2        \* cart lines a session may hold
MaxHistory == 8     \* messages kept in one session's conversation_history
MaxOrders == 1      \* rows the orders table may hold
MaxSteps == 1       \* tool calls of one ReAct agent run

(***************************************************************************)
(* sawt/state/machine.py                                                   *)
(***************************************************************************)
State ==
  {"S0_INIT", "S1_INTENT", "S2_GREETING", "S3_LOCATION", "S4_ORDERING",
   "S5_CHECKOUT", "S6_FINALIZED", "S_COMPLAINT", "S_FALLBACK"}

Intent == {"ordering", "complaint", "inquiry", "other"}

Trigger ==
  {"start", "retry", "exit", "intent_ordering", "intent_complaint",
   "intent_inquiry", "intent_other", "confirm_order", "not_ordering",
   "address_valid", "address_invalid", "pickup_chosen", "restaurant_closed",
   "checkout", "continue_ordering", "order_confirmed", "modify_order",
   "cancel", "resolved", "escalate"}

TRANSITIONS ==
  [s \in State |->
     CASE s = "S0_INIT" -> ("start" :> "S1_INTENT")
       [] s = "S1_INTENT" ->
            ("intent_ordering" :> "S2_GREETING") @@
            ("intent_complaint" :> "S_COMPLAINT") @@
            ("intent_inquiry" :> "S_FALLBACK") @@
            ("intent_other" :> "S_FALLBACK")
       [] s = "S2_GREETING" ->
            ("confirm_order" :> "S3_LOCATION") @@
            ("not_ordering" :> "S_FALLBACK") @@
            ("restaurant_closed" :> "S6_FINALIZED")
       [] s = "S3_LOCATION" ->
            ("address_valid" :> "S4_ORDERING") @@
            ("pickup_chosen" :> "S4_ORDERING") @@
            ("restaurant_closed" :> "S6_FINALIZED") @@
            ("cancel" :> "S0_INIT")
       [] s = "S4_ORDERING" ->
            ("checkout" :> "S5_CHECKOUT") @@
            ("continue_ordering" :> "S4_ORDERING") @@
            ("cancel" :> "S0_INIT")
       [] s = "S5_CHECKOUT" ->
            ("order_confirmed" :> "S6_FINALIZED") @@
            ("modify_order" :> "S4_ORDERING") @@
            ("cancel" :> "S0_INIT")
       [] s = "S6_FINALIZED" -> ("start" :> "S1_INTENT")
       [] s = "S_COMPLAINT" ->
            ("resolved" :> "S2_GREETING") @@
            ("escalate" :> "S6_FINALIZED")
       [] s = "S_FALLBACK" ->
            ("retry" :> "S1_INTENT") @@
            ("exit" :> "S6_FINALIZED") @@
            ("intent_ordering" :> "S2_GREETING")]

\* a lookup that ignores the current state: the target of the trigger in the
\* first state that has it
get_next_state_any_state(current_state, trigger) ==
  LET hits == {st \in State : trigger \in DOMAIN TRANSITIONS[st]}
  IN  IF hits = {} THEN None
      ELSE TRANSITIONS[CHOOSE st \in hits : TRUE][trigger]

\* a lookup that answers the current state where the table has no entry
get_next_state_or_stay(current_state, trigger) ==
  IF current_state \in DOMAIN TRANSITIONS
       /\ trigger \in DOMAIN TRANSITIONS[current_state]
    THEN TRANSITIONS[current_state][trigger]
    ELSE current_state

\* TRANSITIONS.get(current_state, {}).get(trigger): None when there is no entry
get_next_state(current_state, trigger) ==
  IF current_state \in DOMAIN TRANSITIONS
       /\ trigger \in DOMAIN TRANSITIONS[current_state]
    THEN TRANSITIONS[current_state][trigger]
    ELSE None

\* get_next_state(current_state, trigger) is not None
is_valid_transition(current_state, trigger) ==
  get_next_state(current_state, trigger) # None

\* mapping.get(intent, Trigger.INTENT_OTHER)
intent_to_trigger(intent) ==
  CASE intent = "ordering" -> "intent_ordering"
    [] intent = "complaint" -> "intent_complaint"
    [] intent = "inquiry" -> "intent_inquiry"
    [] OTHER -> "intent_other"

get_agent_for_state(state) ==
  CASE state = "S0_INIT" -> "intent"
    [] state = "S1_INTENT" -> "intent"
    [] state = "S2_GREETING" -> "greeter"
    [] state = "S3_LOCATION" -> "location"
    [] state = "S4_ORDERING" -> "order"
    [] state = "S5_CHECKOUT" -> "checkout"
    [] state = "S6_FINALIZED" -> "summarizer"
    [] state = "S_COMPLAINT" -> "complaint"
    [] state = "S_FALLBACK" -> "fallback"
    [] OTHER -> "fallback"

(***************************************************************************)
(* Text.  A character is a string token; the Arabic-Indic digit of value d *)
(* is "ar" \o d and the Persian/Urdu digit is "fa" \o d.                   *)
(***************************************************************************)
Digits == {"0", "1", "2", "3", "4", "5", "6", "7", "8", "9"}

ARABIC_INDIC_TO_WESTERN ==
  ("ar0" :> "0") @@ ("ar1" :> "1") @@ ("ar2" :> "2") @@ ("ar3" :> "3") @@
  ("ar4" :> "4") @@ ("ar5" :> "5") @@ ("ar6" :> "6") @@ ("ar7" :> "7") @@
  ("ar8" :> "8") @@ ("ar9" :> "9")

EXTENDED_ARABIC_TO_WESTERN ==
  ("fa0" :> "0") @@ ("fa1" :> "1") @@ ("fa2" :> "2") @@ ("fa3" :> "3") @@
  ("fa4" :> "4") @@ ("fa5" :> "5") @@ ("fa6" :> "6") @@ ("fa7" :> "7") @@
  ("fa8" :> "8") @@ ("fa9" :> "9")

\* str.replace(old, new) for every entry of a one-character mapping
ReplaceAll(text, mapping) ==
  [i \in 1..Len(text) |->
     IF text[i] \in DOMAIN mapping THEN mapping[text[i]] ELSE text[i]]

\* only the first of the two loops of normalize_numerals
normalize_numerals_indic_only(text) == ReplaceAll(text, ARABIC_INDIC_TO_WESTERN)

normalize_numerals(text) ==
  ReplaceAll(ReplaceAll(text, ARABIC_INDIC_TO_WESTERN), EXTENDED_ARABIC_TO_WESTERN)

RemoveChars(text, chars) == SelectSeq(text, LAMBDA c : c \notin chars)

StartsWith(text, prefix) ==
  /\ Len(text) >= Len(prefix)
  /\ SubSeq(text, 1, Len(prefix)) = prefix

Drop(text, n) == SubSeq(text, n + 1, Len(text))

AllDigits(text) == \A i \in 1..Len(text) : text[i] \in Digits

\* re.match(r"^05\d{8}$", phone)
IsLocalMobile(phone) ==
  /\ Len(phone) = 10
  /\ phone[1] = "0"
  /\ phone[2] = "5"
  /\ AllDigits(phone)

\* the phone after numeral normalization, separator removal and the
\* +966 / 966 prefix rewrite of validate_saudi_phone
LocalForm(phone) ==
  LET p == RemoveChars(normalize_numerals(phone), {" ", "-", "(", ")", "."})
  IN  IF StartsWith(p, <<"+", "9", "6", "6">>) THEN <<"0">> \o Drop(p, 4)
      ELSE IF StartsWith(p, <<"9", "6", "6">>) THEN <<"0">> \o Drop(p, 3)
      ELSE p

\* (is_valid, normalized_phone); normalized_phone is <<>> for None
validate_saudi_phone(phone) ==
  LET p == LocalForm(phone)
  IN  IF IsLocalMobile(p) THEN [valid |-> TRUE, phone |-> p]
      ELSE [valid |-> FALSE, phone |-> <<>>]

\* re.search of r"(\+?966[0-9]{9})" then r"(0[0-9]{9})" in the normalized
\* text; the leftmost match of the first pattern that matches; <<>> for None
MatchIntl(t, i) ==
  LET j == IF i <= Len(t) /\ t[i] = "+" THEN i + 1 ELSE i
  IN  IF /\ j + 11 <= Len(t)
         /\ SubSeq(t, j, j + 2) = <<"9", "6", "6">>
         /\ AllDigits(SubSeq(t, j + 3, j + 11))
        THEN SubSeq(t, i, j + 11)
        ELSE <<>>

MatchLocal(t, i) ==
  IF i + 9 <= Len(t) /\ t[i] = "0" /\ AllDigits(SubSeq(t, i, i + 9))
    THEN SubSeq(t, i, i + 9)
    ELSE <<>>

extract_phone_number(text) ==
  LET t == RemoveChars(normalize_numerals(text), {" ", "-", "(", ")"})
      intl == {i \in 1..Len(t) : MatchIntl(t, i) # <<>>}
      loc == {i \in 1..Len(t) : MatchLocal(t, i) # <<>>}
      First(S) == CHOOSE i \in S : \A k \in S : i <= k
      raw == IF intl # {} THEN MatchIntl(t, First(intl))
             ELSE IF loc # {} THEN MatchLocal(t, First(loc))
             ELSE <<>>
  IN  IF StartsWith(raw, <<"+", "9", "6", "6">>) THEN <<"0">> \o Drop(raw, 4)
      ELSE IF StartsWith(raw, <<"9", "6", "6">>) THEN <<"0">> \o Drop(raw, 3)
      ELSE raw

Letters == {"A", "l", "i"}

\* name.strip() and " ".join(name.split()): runs of spaces collapse, the
\* ends are trimmed
RECURSIVE CollapseSpaces(_)
CollapseSpaces(text) ==
  IF text = <<>> THEN <<>>
  ELSE IF Head(text) = " "
    THEN LET rest == CollapseSpaces(Tail(text))
         IN  IF rest = <<>> \/ Head(rest) = " " THEN rest ELSE <<" ">> \o rest
    ELSE <<Head(text)>> \o CollapseSpaces(Tail(text))

Strip(text) ==
  LET c == CollapseSpaces(text)
  IN  IF c # <<>> /\ Head(c) = " " THEN Tail(c) ELSE c

\* (is_valid, cleaned_name)
validate_customer_name(name) ==
  LET cleaned == Strip(name)
  IN  IF Len(cleaned) < 2 THEN [valid |-> FALSE, name |-> <<>>]
      ELSE IF \E i \in 1..Len(cleaned) : cleaned[i] \notin Letters \cup {" "}
        THEN [valid |-> FALSE, name |-> <<>>]
      ELSE [valid |-> TRUE, name |-> cleaned]


(***************************************************************************)
(* Catalogue rows the repositories read (scripts/seed_menu.py and          *)
(* scripts/seed_areas.py fill the tables; the model keeps a few rows).     *)
(***************************************************************************)
SessionIds == {"s1"}

\* menu_items rows: id -> price in halalas; item 3 exists but is not available
MenuItemIds == {1, 2, 3}
MenuPrice == (1 :> 1000) @@ (2 :> 6000) @@ (3 :> 2500)
MenuAvailable == {1, 2}
MenuName == (1 :> "shawarma") @@ (2 :> "family_box") @@ (3 :> "kabsa")

\* modifiers rows: id -> price_adjustment
ModifierIds == {1}
ModifierPrice == (1 :> 200)
ModifierName == (1 :> "extra_cheese")

\* covered_areas rows
CoveredAreas ==
  {[id |-> 1, name_ar |-> "hay alnarjis", name_en |-> "Al Narjis",
    aliases_ar |-> {"alnarjis", "narjis"}, is_active |-> TRUE]}

\* name ILIKE %term% on the names the model uses
ILikeContains(name, term) ==
  \/ name = term
  \/ name = "hay alnarjis" /\ term \in {"alnarjis", "narjis", "alnar"}
  \/ name = "alnarjis" /\ term \in {"narjis", "alnar"}

(***************************************************************************)
(* sawt/state/session_state.py                                             *)
(***************************************************************************)
CartItemModifier(modifier_id, name_ar, price_adjustment) ==
  [modifier_id |-> modifier_id, name_ar |-> name_ar,
   price_adjustment |-> price_adjustment]

CartItem_to_dict(item) ==
  [menu_item_id |-> item.menu_item_id,
   item_name_ar |-> item.item_name_ar,
   quantity |-> item.quantity,
   unit_price |-> item.unit_price,
   total_price |-> item.total_price,
   modifiers |->
     [i \in 1..Len(item.modifiers) |->
        [modifier_id |-> item.modifiers[i].modifier_id,
         modifier_name_ar |-> item.modifiers[i].name_ar,
         price_adjustment |-> item.modifiers[i].price_adjustment]],
   special_instructions |-> item.special_instructions]

CartItem_from_dict(data) ==
  [menu_item_id |-> data.menu_item_id,
   item_name_ar |-> data.item_name_ar,
   quantity |-> data.quantity,
   unit_price |-> data.unit_price,
   total_price |-> data.total_price,
   modifiers |->
     [i \in 1..Len(data.modifiers) |->
        CartItemModifier(data.modifiers[i].modifier_id,
                         data.modifiers[i].modifier_name_ar,
                         data.modifiers[i].price_adjustment)],
   special_instructions |-> data.special_instructions]

LocationInfo(area_id, area_name_ar, street, building, delivery_notes) ==
  [area_id |-> area_id, area_name_ar |-> area_name_ar, street |-> street,
   building |-> building, delivery_notes |-> delivery_notes]

EmptyLocation == LocationInfo(NullId, None, None, None, None)

is_complete(location) ==
  /\ location.area_id # NullId
  /\ location.area_name_ar # None
  /\ location.street # None
  /\ location.building # None

\* the parts joined by to_address_string, in order
to_address_string(location) ==
  (IF location.area_name_ar # None THEN <<location.area_name_ar>> ELSE <<>>)
  \o (IF location.street # None THEN <<"street", location.street>> ELSE <<>>)
  \o (IF location.building # None THEN <<"building", location.building>> ELSE <<>>)

RECURSIVE SumTotals(_)
SumTotals(cart) ==
  IF cart = <<>> THEN 0 ELSE Head(cart).total_price + SumTotals(Tail(cart))

get_cart_subtotal(session) == SumTotals(session.cart)

add_message(session, role, content) ==
  [session EXCEPT !.conversation_history =
     Append(@, [role |-> role, content |-> content])]

\* the updates _save_session passes on: to_dict() without session_id
SessionState_to_dict(session) ==
  [state |-> session.state,
   customer_name |-> session.customer_name,
   customer_phone |-> session.customer_phone,
   delivery_address |-> to_address_string(session.location),
   delivery_area_id |-> session.location.area_id,
   order_type |-> session.order_type,
   cart |-> [i \in 1..Len(session.cart) |-> CartItem_to_dict(session.cart[i])],
   applied_promo_code |-> session.applied_promo_code,
   conversation_history |-> session.conversation_history]

SessionState_from_db_row(row) ==
  [session_id |-> row.id,
   state |-> row.state,
   customer_name |-> row.customer_name,
   customer_phone |-> row.customer_phone,
   location |-> LocationInfo(row.delivery_area_id, None, None, None, None),
   order_type |-> row.order_type,
   cart |-> [i \in 1..Len(row.cart) |-> CartItem_from_dict(row.cart[i])],
   applied_promo_code |-> row.applied_promo_code,
   conversation_history |-> row.conversation_history]

(***************************************************************************)
(* sawt/db/repositories/session_repo.py: the sessions table is a function  *)
(* from session id to a row; a missing row has exists = FALSE.             *)
(***************************************************************************)
\* settings.session_expiry_hours
session_expiry_hours == 2

\* Times are hours counted from the present moment (now = 0): expires_at is
\* what the column holds minus now.  create_session: expires_at = now +
\* timedelta(hours=settings.session_expiry_hours)
NewRow(session_id) ==
  [exists |-> TRUE, id |-> session_id, state |-> "S0_INIT",
   expires_at |-> session_expiry_hours,
   customer_name |-> <<>>, customer_phone |-> <<>>,
   delivery_address |-> <<>>, delivery_area_id |-> NullId,
   order_type |-> None, cart |-> <<>>, applied_promo_code |-> None,
   conversation_history |-> <<>>]

NoRow(session_id) == [NewRow(session_id) EXCEPT !.exists = FALSE]

\* INSERT INTO sessions ... then get_session
create_session(table, session_id) ==
  [table EXCEPT ![session_id] = NewRow(session_id)]

\* DELETE FROM sessions WHERE id = $1
delete_session(table, session_id) ==
  [table EXCEPT ![session_id] = NoRow(session_id)]

\* the clock moves on by the given hours: every stored time of the rows
\* named is that much nearer to, or further behind, the present
RECURSIVE ElapseRows(_, _, _)
ElapseRows(table, session_ids, hours) ==
  IF session_ids = {} THEN table
  ELSE LET sid == CHOOSE x \in session_ids : TRUE
       IN  ElapseRows(IF table[sid].exists
                        THEN [table EXCEPT ![sid].expires_at = @ - hours]
                        ELSE table,
                      session_ids \ {sid}, hours)

Elapse(table, hours) == ElapseRows(table, SessionIds, hours)

\* UPDATE sessions SET updated_at = $2, <every field of updates> WHERE id = $1;
\* expires_at is not among the columns written
update_session(table, session_id, updates) ==
  IF ~table[session_id].exists THEN table
  ELSE [table EXCEPT ![session_id] =
          [exists |-> TRUE, id |-> session_id,
           expires_at |-> table[session_id].expires_at,
           state |-> updates.state,
           customer_name |-> updates.customer_name,
           customer_phone |-> updates.customer_phone,
           delivery_address |-> updates.delivery_address,
           delivery_area_id |-> updates.delivery_area_id,
           order_type |-> updates.order_type,
           cart |-> updates.cart,
           applied_promo_code |-> updates.applied_promo_code,
           conversation_history |-> updates.conversation_history]]


(***************************************************************************)
(* sawt/db/repositories/promo_repo.py.  Money is in halalas (1/100 riyal), *)
(* so the Decimal arithmetic of the code is exact integer arithmetic here. *)
(* The promo_codes rows are those of scripts/seed_areas.py; usage_count is *)
(* the only column that changes and is the state variable promo_usage.     *)
(***************************************************************************)
MaxUsage == 2       \* increments of one promo code's usage_count

PromoCodeNames == {"WELCOME10", "FIRST20", "FREE15"}

PROMO_CODES ==
  ("WELCOME10" :>
     [id |-> 1, discount_type |-> "percentage", discount_value |-> 10,
      min_order_amount |-> 5000, max_discount |-> 3000, usage_limit |-> 0,
      is_active |-> TRUE, valid_from |-> <<>>, valid_until |-> <<>>]) @@
  ("FIRST20" :>
     [id |-> 2, discount_type |-> "percentage", discount_value |-> 20,
      min_order_amount |-> 10000, max_discount |-> 5000, usage_limit |-> 0,
      is_active |-> TRUE, valid_from |-> <<>>, valid_until |-> <<>>]) @@
  ("FREE15" :>
     [id |-> 3, discount_type |-> "fixed", discount_value |-> 1500,
      min_order_amount |-> 7500, max_discount |-> 0, usage_limit |-> 0,
      is_active |-> TRUE, valid_from |-> <<>>, valid_until |-> <<>>])

\* str.upper() on the code spellings the model uses
Upper(code) ==
  CASE code = "welcome10" -> "WELCOME10"
    [] code = "free15" -> "FREE15"
    [] OTHER -> code

Min(a, b) == IF a <= b THEN a ELSE b

\* SELECT ... WHERE UPPER(code) = UPPER($1): the row with its usage_count,
\* found = FALSE for no row
get_promo_by_code(usage, code) ==
  IF Upper(code) \in DOMAIN PROMO_CODES
    THEN [found |-> TRUE, row |-> PROMO_CODES[Upper(code)],
          usage_count |-> usage[Upper(code)]]
    ELSE [found |-> FALSE, row |-> PROMO_CODES["WELCOME10"], usage_count |-> 0]

\* validate_promo from the row get_promo_by_code fetched on: (is_valid,
\* discount_amount, message_ar).  NULL limits are 0, which Python treats as
\* false exactly as it does None; valid_from and valid_until are hours from
\* now, <<>> for NULL; money is in halalas, so the percentage of the seeded
\* codes on a whole number of riyals is exact.
validate_promo_of(promo, subtotal) ==
  LET row == promo.row
      pct == (subtotal * row.discount_value) \div 100
      raw == IF row.discount_type = "percentage"
               THEN IF row.max_discount # 0 THEN Min(pct, row.max_discount) ELSE pct
               ELSE row.discount_value
      no(message_ar) == [valid |-> FALSE, discount |-> 0, message_ar |-> message_ar]
  IN  IF ~promo.found THEN no("invalid_code")
      ELSE IF ~row.is_active THEN no("inactive")
      ELSE IF row.usage_limit # 0 /\ promo.usage_count >= row.usage_limit
        THEN no("usage_exhausted")
      ELSE IF row.valid_from # <<>> /\ 0 < row.valid_from[1] THEN no("not_started")
      ELSE IF row.valid_until # <<>> /\ 0 > row.valid_until[1] THEN no("expired")
      ELSE IF subtotal < row.min_order_amount THEN no("min_order")
      ELSE [valid |-> TRUE, discount |-> Min(raw, subtotal), message_ar |-> "applied"]

validate_promo(usage, code, subtotal) ==
  validate_promo_of(get_promo_by_code(usage, code), subtotal)

\* UPDATE promo_codes SET usage_count = usage_count + 1
\*   WHERE UPPER(code) = UPPER($1) AND is_active = true, in its own transaction
increment_usage(usage, code) ==
  IF Upper(code) \in DOMAIN PROMO_CODES /\ PROMO_CODES[Upper(code)].is_active
    THEN [usage EXCEPT ![Upper(code)] = @ + 1]
    ELSE usage

(***************************************************************************)
(* sawt/db/repositories/order_repo.py.  The three order tables are one     *)
(* record db = [orders, order_items, order_item_modifiers] of sequences.   *)
(***************************************************************************)
EmptyOrderTables ==
  [orders |-> <<>>, order_items |-> <<>>, order_item_modifiers |-> <<>>]

\* the rows create_order inserts for the cart lines of order order_id
ItemRows(order_id, cart_items, first_id) ==
  [i \in 1..Len(cart_items) |->
     [id |-> first_id + i, order_id |-> order_id,
      menu_item_id |-> cart_items[i].menu_item_id,
      quantity |-> cart_items[i].quantity,
      unit_price |-> cart_items[i].unit_price,
      total_price |-> cart_items[i].total_price]]

RECURSIVE ModifierRows(_, _, _)
ModifierRows(cart_items, first_id, i) ==
  IF i > Len(cart_items) THEN <<>>
  ELSE [k \in 1..Len(cart_items[i].modifiers) |->
          [order_item_id |-> first_id + i,
           modifier_id |-> cart_items[i].modifiers[k].modifier_id,
           price_adjustment |-> cart_items[i].modifiers[k].price_adjustment]]
       \o ModifierRows(cart_items, first_id, i + 1)

\* OrderRepository.create_order: one transaction.  db_ok = FALSE is a
\* statement of the transaction failing: the transaction rolls back, nothing
\* is written and the call raises.
create_order(db, header, cart_items, db_ok) ==
  LET order_id == Len(db.orders) + 1
      first_item == Len(db.order_items)
  IN  IF ~db_ok THEN [raised |-> TRUE, order_id |-> NullId, db |-> db]
      ELSE [raised |-> FALSE, order_id |-> order_id,
            db |-> [orders |-> Append(db.orders,
                                      [header EXCEPT !.id = order_id,
                                                     !.status = "confirmed"]),
                    order_items |->
                      db.order_items \o ItemRows(order_id, cart_items, first_item),
                    order_item_modifiers |->
                      db.order_item_modifiers
                        \o ModifierRows(cart_items, first_item, 1)]]

\* the column values handed to create_order's INSERT INTO orders
OrderHeader(session_id, customer_name, customer_phone, delivery_address, delivery_area_id, order_type, subtotal, fee, discount_amount, promo_code_id, total) ==
  [id |-> NullId, session_id |-> session_id, customer_name |-> customer_name,
   customer_phone |-> customer_phone, delivery_address |-> delivery_address,
   delivery_area_id |-> delivery_area_id, order_type |-> order_type,
   subtotal |-> subtotal, delivery_fee |-> fee,
   discount_amount |-> discount_amount, promo_code_id |-> promo_code_id,
   total |-> total, status |-> "new"]


(***************************************************************************)
(* sawt/db/repositories/coverage_repo.py and menu_repo.py                  *)
(***************************************************************************)
find_area_by_name(name) ==
  LET exact == {a \in CoveredAreas :
                  a.is_active /\ (a.name_ar = name \/ a.name_en = name)}
      alias == {a \in CoveredAreas : a.is_active /\ name \in a.aliases_ar}
  IN  IF exact # {} THEN [found |-> TRUE, area |-> CHOOSE a \in exact : TRUE]
      ELSE IF alias # {} THEN [found |-> TRUE, area |-> CHOOSE a \in alias : TRUE]
      ELSE [found |-> FALSE, area |-> CHOOSE a \in CoveredAreas : TRUE]

search_area(search_term) ==
  {a \in CoveredAreas :
     /\ a.is_active
     /\ \/ ILikeContains(a.name_ar, search_term)
        \/ ILikeContains(a.name_en, search_term)
        \/ \E al \in a.aliases_ar : ILikeContains(al, search_term)}

\* (is_covered, area_info): kind is "area", "suggestions" or "none"
check_coverage(area_name) ==
  LET area == find_area_by_name(area_name)
  IN  IF area.found THEN [covered |-> TRUE, kind |-> "area", area |-> area.area]
      ELSE IF search_area(area_name) # {}
        THEN [covered |-> FALSE, kind |-> "suggestions", area |-> area.area]
      ELSE [covered |-> FALSE, kind |-> "none", area |-> area.area]

\* SELECT ... FROM menu_items WHERE id = $1 AND is_available = true
get_item_by_id(item_id) ==
  IF item_id \in MenuItemIds /\ item_id \in MenuAvailable
    THEN [found |-> TRUE, id |-> item_id, name_ar |-> MenuName[item_id],
          price |-> MenuPrice[item_id]]
    ELSE [found |-> FALSE, id |-> item_id, name_ar |-> None, price |-> 0]

\* the modifier rows whose id is in modifier_ids, in id order
get_modifiers_by_ids(modifier_ids) ==
  LET ids == {m \in ModifierIds : \E i \in 1..Len(modifier_ids) : modifier_ids[i] = m}
      RECURSIVE Rows(_)
      Rows(S) == IF S = {} THEN <<>>
                 ELSE LET m == CHOOSE x \in S : \A y \in S : x <= y
                      IN  <<CartItemModifier(m, ModifierName[m], ModifierPrice[m])>>
                          \o Rows(S \ {m})
  IN  Rows(ids)

(***************************************************************************)
(* sawt/utils/time_utils.py and sawt/config.py                             *)
(***************************************************************************)
opening_hour == 9
closing_hour == 3
delivery_fee == 1500

is_restaurant_open(hour) ==
  IF closing_hour < opening_hour
    THEN hour >= opening_hour \/ hour < closing_hour
    ELSE opening_hour <= hour /\ hour < closing_hour

(***************************************************************************)
(* Agents (sawt/agents).  An agent's process returns an AgentResult        *)
(* [response_ar, session_updates, trigger]; session_updates is a function  *)
(* whose domain is the set of keys the agent put in the dict, and trigger  *)
(* is None for no trigger.  The parameter llm is the parsed JSON the model *)
(* returned, llm.raised = TRUE standing for the call raising.  A reply     *)
(* text is a token: "" for the empty text, "confirmation" for the text of  *)
(* get_confirmation_message, "order_error" for the order-creation error    *)
(* text and "reply" for every other text addressed to the customer.        *)
(***************************************************************************)
NoUpdates == [k \in {} |-> None]

AgentResult(response_ar, session_updates, trigger) ==
  [response_ar |-> response_ar, session_updates |-> session_updates,
   trigger |-> trigger]

IntentAgent_process(llm) ==
  IF llm.raised THEN AgentResult("", NoUpdates, "intent_ordering")
  ELSE LET intent == IF llm.intent \in Intent THEN llm.intent ELSE "other"
       IN  AgentResult("", NoUpdates, intent_to_trigger(intent))

GreeterAgent_process(hour, llm) ==
  LET restaurant_open == is_restaurant_open(hour)
  IN  IF llm.raised
        THEN IF restaurant_open
               THEN AgentResult("reply", NoUpdates, "confirm_order")
               ELSE AgentResult("reply", NoUpdates, "restaurant_closed")
      ELSE AgentResult(
             "reply", NoUpdates,
             IF ~restaurant_open THEN "restaurant_closed"
             ELSE IF llm.next_action = "confirm_order" THEN "confirm_order"
             ELSE IF llm.next_action = "not_ordering" THEN "not_ordering"
             ELSE IF llm.next_action = "restaurant_closed" THEN "restaurant_closed"
             ELSE None)

LocationAgent_process(session, llm) ==
  LET upd == llm.location_update
      typed ==
        [area_id |-> session.location.area_id,
         area_name_ar |-> IF upd.area_name_ar # None THEN upd.area_name_ar
                          ELSE session.location.area_name_ar,
         street |-> IF upd.street # None THEN upd.street
                    ELSE session.location.street,
         building |-> IF upd.building # None THEN upd.building
                      ELSE session.location.building,
         delivery_notes |-> IF upd.delivery_notes # None THEN upd.delivery_notes
                            ELSE session.location.delivery_notes]
      checked == llm.needs_coverage_check /\ typed.area_name_ar # None
      coverage == check_coverage(typed.area_name_ar)
      covered == checked /\ coverage.covered
      new_location ==
        IF covered
          THEN [typed EXCEPT !.area_id = coverage.area.id,
                             !.area_name_ar = coverage.area.name_ar]
          ELSE typed
      response_ar == "reply"
      order_type_upd ==
        IF llm.next_action = "pickup_chosen" THEN ("order_type" :> "pickup")
        ELSE IF covered THEN ("order_type" :> "delivery")
        ELSE NoUpdates
      trigger ==
        IF llm.next_action = "pickup_chosen" THEN "pickup_chosen"
        ELSE IF llm.next_action = "address_valid" /\ is_complete(new_location)
          THEN "address_valid"
        ELSE IF llm.next_action = "cancel" THEN "cancel"
        ELSE None
  IN  IF llm.raised THEN AgentResult("reply", NoUpdates, None)
      ELSE AgentResult(response_ar,
                       ("location" :> new_location) @@ order_type_upd, trigger)

RECURSIVE SumAdjustments(_)
SumAdjustments(modifiers) ==
  IF modifiers = <<>> THEN 0
  ELSE Head(modifiers).price_adjustment + SumAdjustments(Tail(modifiers))

\* the "update" branch: the first line of the item gets the quantity and a
\* recomputed total_price
UpdateFirst(cart, item_id, quantity) ==
  LET hits == {i \in 1..Len(cart) : cart[i].menu_item_id = item_id}
      first == CHOOSE i \in hits : \A k \in hits : i <= k
  IN  IF hits = {} THEN cart
      ELSE [cart EXCEPT ![first] =
              [@ EXCEPT !.quantity = quantity,
                        !.total_price = cart[first].unit_price * quantity]]

OrderAgent_process(session, llm) ==
  LET action == llm.cart_action
      item == get_item_by_id(action.item_id)
      modifiers == get_modifiers_by_ids(action.modifier_ids)
      unit_price == item.price + SumAdjustments(modifiers)
      cart_item ==
        [menu_item_id |-> action.item_id, item_name_ar |-> item.name_ar,
         quantity |-> action.quantity, unit_price |-> unit_price,
         total_price |-> unit_price * action.quantity,
         modifiers |-> modifiers, special_instructions |-> None]
      new_cart ==
        IF action.type = "add" /\ action.item_id # NullId
          THEN IF item.found THEN Append(session.cart, cart_item) ELSE session.cart
        ELSE IF action.type = "remove"
          THEN IF action.item_id # NullId
                 THEN SelectSeq(session.cart,
                                LAMBDA c : c.menu_item_id # action.item_id)
                 ELSE session.cart
        ELSE IF action.type = "update"
          THEN UpdateFirst(session.cart, action.item_id, action.quantity)
        ELSE session.cart
      trigger ==
        IF llm.next_action = "checkout" /\ new_cart # <<>> THEN "checkout"
        ELSE IF llm.next_action = "cancel" THEN "cancel"
        ELSE None
  IN  IF llm.raised THEN AgentResult("reply", NoUpdates, None)
      ELSE AgentResult("reply", ("cart" :> new_cart), trigger)

\* dict.get(key) or fallback, for the text-valued keys
GetOr(updates, key, fallback) ==
  IF key \in DOMAIN updates /\ updates[key] # <<>> THEN updates[key] ELSE fallback

\* dict.get("applied_promo_code") or fallback
GetPromoOr(updates, fallback) ==
  IF "applied_promo_code" \in DOMAIN updates /\ updates["applied_promo_code"] # None
    THEN updates["applied_promo_code"]
    ELSE fallback

\* CheckoutAgent._create_order once the promo has been looked up: check is
\* the result of validate_promo, promo the row of get_promo_by_code.  The
\* promo usage is incremented by its own committed transaction before the
\* order transaction starts.
CreateOrderWithPromo(session, customer_name, customer_phone, promo_code, check, promo, usage, db, db_ok) ==
  LET subtotal == get_cart_subtotal(session)
      fee == IF session.order_type = "delivery" THEN delivery_fee ELSE 0
      applies == promo_code # None /\ check.valid
      discount == IF applies THEN check.discount ELSE 0
      promo_code_id == IF applies /\ promo.found THEN promo.row.id ELSE NullId
      usage1 == IF applies /\ promo.found THEN increment_usage(usage, promo_code)
                ELSE usage
      header ==
        OrderHeader(session.session_id, customer_name, customer_phone,
                    to_address_string(session.location), session.location.area_id,
                    session.order_type, subtotal, fee, discount, promo_code_id,
                    subtotal + fee - discount)
  IN  [usage |-> usage1, created |-> create_order(db, header, session.cart, db_ok)]

\* the dict _create_order returns for what the two transactions did
CreateOrderResult(customer_name, customer_phone, usage, db, out) ==
  IF customer_name = <<>> \/ customer_phone = <<>>
    THEN [success |-> FALSE, order_id |-> NullId, usage |-> usage, db |-> db]
  ELSE IF out.created.raised
    THEN [success |-> FALSE, order_id |-> NullId, usage |-> out.usage, db |-> db]
  ELSE [success |-> TRUE, order_id |-> out.created.order_id, usage |-> out.usage,
        db |-> out.created.db]

\* _create_order for a customer and a promo code
CreateOrderFor(session, customer_name, customer_phone, promo_code, usage, db, db_ok) ==
  CreateOrderResult(
    customer_name, customer_phone, usage, db,
    CreateOrderWithPromo(
      session, customer_name, customer_phone, promo_code,
      validate_promo(usage, promo_code, get_cart_subtotal(session)),
      get_promo_by_code(usage, promo_code), usage, db, db_ok))

\* CheckoutAgent._create_order: [success, order_id, usage, db]
CheckoutAgent_create_order(session, updates, usage, db, db_ok) ==
  CreateOrderFor(session,
                 GetOr(updates, "customer_name", session.customer_name),
                 GetOr(updates, "customer_phone", session.customer_phone),
                 GetPromoOr(updates, session.applied_promo_code),
                 usage, db, db_ok)

\* lines 86-91 of CheckoutAgent.process: the customer name the model extracted
NameUpdate(raw, name) ==
  IF raw # <<>> /\ name.valid /\ name.name # <<>>
    THEN ("customer_name" :> name.name) ELSE NoUpdates

\* lines 93-99: the phone the model extracted, else the one in the message
PhoneUpdate(phone, checked) ==
  IF phone # <<>> /\ checked.valid /\ checked.phone # <<>>
    THEN ("customer_phone" :> checked.phone) ELSE NoUpdates

PhoneOf(llm, extracted_phone) ==
  IF llm.customer_update.phone # <<>> THEN llm.customer_update.phone
  ELSE extracted_phone

\* lines 101-108: the promo code the model extracted
PromoUpdate(session, usage, llm) ==
  IF /\ llm.promo_code # None
     /\ llm.promo_code # session.applied_promo_code
     /\ validate_promo(usage, llm.promo_code, get_cart_subtotal(session)).valid
    THEN ("applied_promo_code" :> Upper(llm.promo_code)) ELSE NoUpdates

\* the session_updates of CheckoutAgent.process
CheckoutUpdates(session, usage, llm, phone) ==
  NameUpdate(llm.customer_update.name,
             validate_customer_name(llm.customer_update.name))
    @@ PhoneUpdate(phone, validate_saudi_phone(normalize_numerals(phone)))
    @@ PromoUpdate(session, usage, llm)

\* can_confirm of CheckoutAgent.process
CanConfirm(session, final_name, final_phone) ==
  /\ session.cart # <<>>
  /\ final_name # <<>>
  /\ final_phone # <<>>
  /\ (session.order_type = "pickup" \/ is_complete(session.location))

\* the AgentResult of a turn that does or does not confirm, with the tables
\* the turn leaves behind
CheckoutOutcome(llm, session_updates, confirming, order_result, usage, db) ==
  LET trigger ==
        IF confirming THEN IF order_result.success THEN "order_confirmed" ELSE None
        ELSE IF llm.next_action = "modify_order" THEN "modify_order"
        ELSE IF llm.next_action = "cancel" THEN "cancel"
        ELSE None
      response_ar ==
        IF confirming
          THEN IF order_result.success THEN "confirmation" ELSE "order_error"
          ELSE "reply"
  IN  [result |-> AgentResult(response_ar, session_updates, trigger),
       usage |-> IF confirming THEN order_result.usage ELSE usage,
       db |-> IF confirming THEN order_result.db ELSE db,
       attempted |-> confirming]

\* CheckoutAgent.process from the session_updates on
CheckoutWithUpdates(session, usage, db, llm, db_ok, session_updates) ==
  CheckoutOutcome(
    llm, session_updates,
    /\ llm.next_action = "order_confirmed"
    /\ llm.is_confirmed
    /\ CanConfirm(session,
                  GetOr(session_updates, "customer_name", session.customer_name),
                  GetOr(session_updates, "customer_phone", session.customer_phone)),
    CheckoutAgent_create_order(session, session_updates, usage, db, db_ok),
    usage, db)

\* CheckoutAgent.process: the AgentResult with the tables it leaves behind
CheckoutAgent_process(user_message, session, usage, db, llm, db_ok) ==
  IF llm.raised
    THEN [result |-> AgentResult("reply", NoUpdates, None),
          usage |-> usage, db |-> db, attempted |-> FALSE]
    ELSE CheckoutWithUpdates(
           session, usage, db, llm, db_ok,
           CheckoutUpdates(session, usage, llm,
                           PhoneOf(llm, extract_phone_number(user_message))))

\* the summary is not a column the model keeps
SummarizerAgent_process(session) == AgentResult("reply", NoUpdates, None)

(***************************************************************************)
(* sawt/agents/orchestrator.py                                             *)
(***************************************************************************)
\* session["expires_at"] and session["expires_at"] < now
is_expired(table, session_id) ==
  table[session_id].exists /\ table[session_id].expires_at < 0

\* get_or_create_session with the expiry test left out
get_or_create_session_keeps_expired(table, session_id) ==
  IF table[session_id].exists THEN table
  ELSE create_session(table, session_id)

\* SessionRepository.get_or_create_session
get_or_create_session(table, session_id) ==
  IF table[session_id].exists
    THEN IF is_expired(table, session_id)
           THEN create_session(delete_session(table, session_id), session_id)
           ELSE table
    ELSE create_session(table, session_id)

_load_session(table, session_id) == SessionState_from_db_row(table[session_id])

_save_session(table, session) ==
  update_session(table, session.session_id, SessionState_to_dict(session))

\* self.agents.get(get_agent_for_state(state), self.agents["greeter"])
_get_agent(state) ==
  LET agent_name == get_agent_for_state(state)
  IN  IF agent_name \in {"intent", "greeter", "location", "order", "checkout",
                         "summarizer"}
        THEN agent_name ELSE "greeter"

_apply_session_updates(session, updates) ==
  LET Has(k) == k \in DOMAIN updates
  IN  [session EXCEPT
         !.cart = IF Has("cart") THEN updates["cart"] ELSE @,
         !.location = IF Has("location") THEN updates["location"] ELSE @,
         !.customer_name =
            IF Has("customer_name") /\ updates["customer_name"] # <<>>
              THEN updates["customer_name"] ELSE @,
         !.customer_phone =
            IF Has("customer_phone") /\ updates["customer_phone"] # <<>>
              THEN updates["customer_phone"] ELSE @,
         !.order_type =
            IF Has("order_type") /\ updates["order_type"] # None
              THEN updates["order_type"] ELSE @,
         !.applied_promo_code =
            IF Has("applied_promo_code") THEN updates["applied_promo_code"] ELSE @]

\* session.state after "if result.trigger: next_state = get_next_state(...);
\* if next_state: session.state = next_state"
ApplyTrigger(session, current_state, trigger) ==
  IF trigger # None /\ get_next_state(current_state, trigger) # None
    THEN [session EXCEPT !.state = get_next_state(current_state, trigger)]
    ELSE session

\* lines 77-100 of handle_message: the user message, the S0_INIT step and
\* the silent intent detection
IntentPhase(loaded, user_message, intent_llm) ==
  LET s1 == add_message(loaded, "user", user_message)
      s2 == IF s1.state = "S0_INIT" THEN [s1 EXCEPT !.state = "S1_INTENT"] ELSE s1
      intent_result == IntentAgent_process(intent_llm)
  IN  IF s2.state = "S1_INTENT"
        THEN _apply_session_updates(
               ApplyTrigger(s2, "S1_INTENT", intent_result.trigger),
               intent_result.session_updates)
        ELSE s2

\* agent.process(user_message, session) of the agent of the current state
AgentPhase(agent, user_message, session, usage, db, hour, llm, db_ok) ==
  CASE agent = "intent" ->
         [result |-> IntentAgent_process(llm), usage |-> usage, db |-> db]
    [] agent = "greeter" ->
         [result |-> GreeterAgent_process(hour, llm), usage |-> usage, db |-> db]
    [] agent = "location" ->
         [result |-> LocationAgent_process(session, llm), usage |-> usage, db |-> db]
    [] agent = "order" ->
         [result |-> OrderAgent_process(session, llm), usage |-> usage, db |-> db]
    [] agent = "checkout" ->
         LET out == CheckoutAgent_process(user_message, session, usage, db, llm, db_ok)
         IN  [result |-> out.result, usage |-> out.usage, db |-> out.db]
    [] OTHER ->
         [result |-> SummarizerAgent_process(session), usage |-> usage, db |-> db]

\* lines 108-123 of handle_message: the updates, the trigger and the reply
\* of the agent's result out
ApplyResult(session, current_state, out) ==
  LET s4 == _apply_session_updates(session, out.result.session_updates)
      s5 == ApplyTrigger(s4, current_state, out.result.trigger)
  IN  [session |-> IF out.result.response_ar # ""
                     THEN add_message(s5, "assistant", out.result.response_ar)
                     ELSE s5,
       usage |-> out.usage, db |-> out.db,
       trigger |-> out.result.trigger, response_ar |-> out.result.response_ar]

\* lines 102-123 of handle_message, on the session the intent phase left
ProcessPhase(session, user_message, usage, db, hour, llm, db_ok) ==
  ApplyResult(session, session.state,
              AgentPhase(_get_agent(session.state), user_message, session, usage,
                         db, hour, llm, db_ok))

(***************************************************************************)
(* Inputs: what a user can type and what the language model can return.    *)
(***************************************************************************)
PHONE_LOCAL == <<"0", "5", "1", "2", "3", "4", "5", "6", "7", "8">>
PHONE_ARABIC ==
  <<"ar0", "ar5", "ar1", "ar2", "ar3", "ar4", "ar5", "ar6", "ar7", "ar8">>
PHONE_LANDLINE == <<"0", "1", "1", "2", "3", "4", "5", "6", "7", "8">>
NAME_ALI == <<"A", "l", "i">>

UserMessages == {<<"h", "i">>, <<"m", "y", " ">> \o PHONE_LOCAL}

Hours == {3, 9}

IntentOutputs ==
  [raised : {FALSE}, intent : Intent \cup {"bogus"}]
    \cup {[raised |-> TRUE, intent |-> "other"]}

GreeterOutputs ==
  [raised : {FALSE},
   next_action : {"confirm_order", "not_ordering", "restaurant_closed", "continue"}]
    \cup {[raised |-> TRUE, next_action |-> "continue"]}

LocationUpdates ==
  {LocationInfo(NullId, None, None, None, None),
   LocationInfo(NullId, "narjis", "s1", "b1", None),
   LocationInfo(NullId, "alnar", None, None, None),
   LocationInfo(NullId, "mars", "s1", "b1", "ring")}

LocationOutputs ==
  [raised : {FALSE}, location_update : LocationUpdates,
   needs_coverage_check : BOOLEAN,
   next_action : {"continue", "pickup_chosen", "address_valid", "cancel"}]
    \cup {[raised |-> TRUE, location_update |-> EmptyLocation,
           needs_coverage_check |-> FALSE, next_action |-> "continue"]}

CartAction(type, item_id, quantity, modifier_ids) ==
  [type |-> type, item_id |-> item_id, quantity |-> quantity,
   modifier_ids |-> modifier_ids]

CartActions ==
  {CartAction("none", NullId, 1, <<>>),
   CartAction("add", 1, 1, <<>>),
   CartAction("add", 2, 1, <<1>>),
   CartAction("add", 3, 1, <<>>),
   CartAction("remove", 1, 1, <<>>),
   CartAction("update", 1, 2, <<>>)}

OrderOutputs ==
  [raised : {FALSE}, cart_action : CartActions,
   next_action : {"continue_ordering", "checkout", "cancel"}]
    \cup {[raised |-> TRUE, cart_action |-> CartAction("none", NullId, 1, <<>>),
           next_action |-> "continue_ordering"]}

CustomerUpdates ==
  {[name |-> <<>>, phone |-> <<>>],
   [name |-> NAME_ALI, phone |-> <<>>],
   [name |-> NAME_ALI, phone |-> PHONE_ARABIC],
   [name |-> <<"A", "1">>, phone |-> PHONE_LANDLINE]}

\* (next_action, is_confirmed)
CheckoutDecisions ==
  {<<"continue", FALSE>>, <<"order_confirmed", TRUE>>, <<"order_confirmed", FALSE>>,
   <<"modify_order", FALSE>>, <<"cancel", FALSE>>}

CheckoutOutputs ==
  {[raised |-> FALSE, customer_update |-> cu, promo_code |-> pc,
    is_confirmed |-> d[2], next_action |-> d[1]] :
     cu \in CustomerUpdates, pc \in {None, "welcome10", "BOGUS"},
     d \in CheckoutDecisions}
    \cup {[raised |-> TRUE,
           customer_update |-> [name |-> <<>>, phone |-> <<>>],
           promo_code |-> None, is_confirmed |-> FALSE, next_action |-> "continue"]}

SummarizerOutputs == {[raised |-> FALSE]}

\* the outputs the model of the agent can produce
LlmOutputs(agent) ==
  CASE agent = "intent" -> IntentOutputs
    [] agent = "greeter" -> GreeterOutputs
    [] agent = "location" -> LocationOutputs
    [] agent = "order" -> OrderOutputs
    [] agent = "checkout" -> CheckoutOutputs
    [] OTHER -> SummarizerOutputs

(***************************************************************************)
(* The LangGraph workflow: sawt/graph/state.py, sawt/graph/workflow.py and  *)
(* the tools of sawt/tools.  The message list of an AgentState is kept as  *)
(* what the agent nodes read from it: the last set_order_type result, the  *)
(* last "current_total" and the last "order_id" among the messages whose   *)
(* content json.loads parses to a dict.  The nodes do not look at the type *)
(* of a message, so the text of a user message that is such JSON counts.   *)
(***************************************************************************)
GraphSessionIds == {"g1"}
ToolSessionIds == {"default"}

MaxQuantity == 1    \* quantity of one cart line of the tool cart
MaxHops == 4        \* nodes one graph.invoke runs
MaxLog == 4         \* messages of the turns that overlap on one session

graph_recursion_limit == 10

NoMessages ==
  [set_order_type |-> [present |-> FALSE, order_type |-> "delivery",
                       district |-> "", delivery_fee |-> 0],
   current_total |-> [present |-> FALSE, value |-> 0],
   order_id |-> NullId]

create_initial_state(session_id) ==
  [exists |-> TRUE, session_id |-> session_id, messages |-> NoMessages,
   current_agent |-> "greeting", district |-> None, district_validated |-> FALSE,
   delivery_fee |-> 0, order_type |-> "delivery", subtotal |-> 0,
   order_confirmed |-> FALSE, order_id |-> NullId,
   came_from_checkout |-> FALSE, came_from_order |-> FALSE]

NoGraphSession(session_id) ==
  [create_initial_state(session_id) EXCEPT !.exists = FALSE]

HandoffTags == {"location", "order", "checkout", "end"}

\* the handoff tags a final message can contain
Contents == {{}, {"location"}, {"order"}, {"checkout"}, {"end"}, {"order", "checkout"}}

extract_handoff(content) ==
  IF "location" \in content THEN "location"
  ELSE IF "order" \in content THEN "order"
  ELSE IF "checkout" \in content THEN "checkout"
  ELSE IF "end" \in content THEN "end"
  ELSE None

get_order_type_info(store, session_id) ==
  IF store[session_id].present THEN store[session_id]
  ELSE [present |-> FALSE, order_type |-> "delivery", district |-> "",
        delivery_fee |-> 0]

\* the updates call_greeting_agent returns, merged into the state
call_greeting_agent(state, content) ==
  IF extract_handoff(content) # None
    THEN [state EXCEPT !.current_agent = extract_handoff(content)]
    ELSE state

\* the updates call_location_agent returns, merged into the state
call_location_agent(state, store, content) ==
  LET found == state.messages.set_order_type
      stored == get_order_type_info(store, "default")
      s1 == IF found.present
              THEN [state EXCEPT
                      !.order_type = found.order_type,
                      !.district = found.district,
                      !.delivery_fee = found.delivery_fee,
                      !.district_validated =
                         IF found.order_type = "delivery" THEN TRUE ELSE @]
            ELSE IF stored.order_type # "delivery" \/ stored.district # ""
              THEN [state EXCEPT
                      !.order_type = stored.order_type,
                      !.district = stored.district,
                      !.delivery_fee = stored.delivery_fee]
            ELSE state
      marker == extract_handoff(content)
      handoff ==
        IF marker = "order" /\ state.came_from_checkout THEN "checkout"
        ELSE IF marker = "checkout" /\ ~state.came_from_checkout THEN "order"
        ELSE marker
  IN  IF marker = None THEN s1
      ELSE [s1 EXCEPT !.current_agent = handoff,
                      !.came_from_checkout = FALSE,
                      !.came_from_order = FALSE]

\* the updates call_order_agent returns, merged into the state
call_order_agent(state, content) ==
  LET s1 == IF state.messages.current_total.present
              THEN [state EXCEPT !.subtotal = state.messages.current_total.value]
              ELSE state
      handoff == extract_handoff(content)
  IN  IF handoff = None THEN s1
      ELSE [s1 EXCEPT !.current_agent = handoff,
                      !.came_from_order =
                         IF handoff = "location" THEN TRUE ELSE @]

\* the updates call_checkout_agent returns, merged into the state
call_checkout_agent(state, content) ==
  LET s1 == IF state.messages.order_id # NullId
              THEN [state EXCEPT !.order_id = state.messages.order_id,
                                 !.order_confirmed = TRUE]
              ELSE state
      handoff == extract_handoff(content)
  IN  IF handoff = None THEN s1
      ELSE [s1 EXCEPT !.current_agent = handoff,
                      !.came_from_checkout =
                         IF handoff = "location" THEN TRUE ELSE @]

route_after_greeting(state) ==
  IF state.current_agent = "location" THEN "location_node" ELSE "END"

route_after_location(state) ==
  IF state.current_agent = "order" THEN "order_node"
  ELSE IF state.current_agent = "checkout" THEN "checkout_node"
  ELSE "END"

route_after_order(state) ==
  IF state.current_agent = "checkout" THEN "checkout_node"
  ELSE IF state.current_agent = "location" THEN "location_node"
  ELSE "END"

route_after_checkout(state) ==
  IF state.current_agent = "location" THEN "location_node"
  ELSE IF state.current_agent = "order" THEN "order_node"
  ELSE "END"

route_by_current_agent(state) ==
  IF state.current_agent = "end" THEN "END"
  ELSE IF state.current_agent = "location" THEN "location_node"
  ELSE IF state.current_agent = "order" THEN "order_node"
  ELSE IF state.current_agent = "checkout" THEN "checkout_node"
  ELSE "greeting_node"

\* sawt/utils/validators.py validate_quantity: the is_valid it returns
min_quantity == 1
max_quantity == 99

validate_quantity(quantity) == ~(quantity < min_quantity) /\ ~(quantity > max_quantity)

(***************************************************************************)
(* sawt/tools: the module-level stores are functions of the tool           *)
(* session_id; a key that is absent reads as the default the getter gives. *)
(***************************************************************************)
get_session_order(orders, session_id) == orders[session_id]

set_session_order(orders, session_id, items) ==
  [orders EXCEPT ![session_id] = items]

clear_session_order(orders, session_id) == [orders EXCEPT ![session_id] = <<>>]

RECURSIVE SumLines(_)
SumLines(order) ==
  IF order = <<>> THEN 0 ELSE Head(order).line_total + SumLines(Tail(order))

\* the first of the line indices hits, 0 for none: the index a "for i, item
\* in enumerate(order)" loop with a break stops at
FirstLine(hits) ==
  IF hits = {} THEN 0 ELSE CHOOSE i \in hits : \A k \in hits : i <= k

\* add_to_order without the merge of equal lines: the item is always appended
add_to_order_appends(orders, item_id, quantity, notes, session_id) ==
  LET order == get_session_order(orders, session_id)
      order_item ==
        [item_id |-> item_id, name_ar |-> MenuName[item_id], quantity |-> quantity,
         price |-> MenuPrice[item_id], notes |-> notes,
         line_total |-> MenuPrice[item_id] * quantity]
      new_order == Append(order, order_item)
  IN  IF item_id \notin MenuAvailable
        THEN [orders |-> orders, success |-> FALSE, current_total |-> 0]
        ELSE [orders |-> set_session_order(orders, session_id, new_order),
              success |-> TRUE, current_total |-> SumLines(new_order)]

\* the menu cache holds the rows load_menu_to_cache selected: the available ones
add_to_order(orders, item_id, quantity, notes, session_id) ==
  LET order == get_session_order(orders, session_id)
      order_item ==
        [item_id |-> item_id, name_ar |-> MenuName[item_id], quantity |-> quantity,
         price |-> MenuPrice[item_id], notes |-> notes,
         line_total |-> MenuPrice[item_id] * quantity]
      existing_idx ==
        FirstLine({i \in 1..Len(order) :
                     order[i].item_id = item_id /\ order[i].notes = notes})
      new_order ==
        IF existing_idx # 0
          THEN [order EXCEPT ![existing_idx] =
                  [@ EXCEPT !.quantity = @ + quantity,
                            !.line_total =
                               order[existing_idx].price
                                 * (order[existing_idx].quantity + quantity)]]
          ELSE Append(order, order_item)
  IN  IF item_id \notin MenuAvailable
        THEN [orders |-> orders, success |-> FALSE, current_total |-> 0]
        ELSE [orders |-> set_session_order(orders, session_id, new_order),
              success |-> TRUE, current_total |-> SumLines(new_order)]

\* remove_from_order that stores the filtered list before it looks whether a
\* line was dropped, and empties the cart on a miss
remove_from_order_clears(orders, item_id, session_id) ==
  LET order == get_session_order(orders, session_id)
      new_order == SelectSeq(order, LAMBDA e : e.item_id # item_id)
  IN  IF Len(new_order) = Len(order)
        THEN [orders |-> clear_session_order(orders, session_id),
              success |-> FALSE, new_subtotal |-> 0]
      ELSE [orders |-> set_session_order(orders, session_id, new_order),
            success |-> TRUE, new_subtotal |-> SumLines(new_order)]

remove_from_order(orders, item_id, session_id) ==
  LET order == get_session_order(orders, session_id)
      new_order == SelectSeq(order, LAMBDA e : e.item_id # item_id)
  IN  IF Len(new_order) = Len(order)
        THEN [orders |-> orders, success |-> FALSE, new_subtotal |-> 0]
      ELSE [orders |-> set_session_order(orders, session_id, new_order),
            success |-> TRUE, new_subtotal |-> SumLines(new_order)]

\* get_current_order: the dict it returns; the stores are left alone
get_current_order(orders, session_id) ==
  LET order == get_session_order(orders, session_id)
  IN  [orders |-> orders, items |-> order, subtotal |-> SumLines(order)]

\* the list after "order[item_idx]['notes'] = notes" (item_idx counts from
\* 1 here), and whether the index is still inside the list
HasLine(order, item_idx) == item_idx \in 1..Len(order)

SetNotes(order, item_idx, notes) ==
  IF HasLine(order, item_idx)
    THEN [order EXCEPT ![item_idx] = [@ EXCEPT !.notes = notes]]
  ELSE order

\* update_order_item that writes the quantity and leaves line_total as it was
update_order_item_keeps_total(orders, item_id, quantity, notes, session_id) ==
  LET order == get_session_order(orders, session_id)
      item_idx == FirstLine({i \in 1..Len(order) : order[i].item_id = item_id})
      popped == [i \in 1..(Len(order) - 1) |->
                   IF i < item_idx THEN order[i] ELSE order[i + 1]]
      updated == [order EXCEPT ![item_idx] = [@ EXCEPT !.quantity = quantity[1]]]
      after_quantity ==
        IF quantity = <<>> THEN order
        ELSE IF quantity[1] <= 0 THEN popped
        ELSE updated
      after_notes ==
        IF notes = <<>> THEN after_quantity
        ELSE SetNotes(after_quantity, item_idx, notes[1])
  IN  IF item_idx = 0 THEN [orders |-> orders, success |-> FALSE, raises |-> FALSE]
      ELSE IF notes # <<>> /\ ~HasLine(after_quantity, item_idx)
        THEN [orders |-> set_session_order(orders, session_id, after_quantity),
              success |-> FALSE, raises |-> TRUE]
      ELSE IF quantity = <<>> /\ notes = <<>>
        THEN [orders |-> orders, success |-> FALSE, raises |-> TRUE]
      ELSE [orders |-> set_session_order(orders, session_id, after_notes),
            success |-> TRUE, raises |-> FALSE]

\* update_order_item(item_id, quantity, notes): quantity and notes are <<>>
\* for None and <<value>> otherwise.  The list held in _orders is changed in
\* place: after the pop of a quantity <= 0 the notes are written at the same
\* index, which is the next line or, past the end, an IndexError; with
\* neither argument given no branch binds result and the final
\* log_tool_result(..., result) raises UnboundLocalError.
update_order_item(orders, item_id, quantity, notes, session_id) ==
  LET order == get_session_order(orders, session_id)
      item_idx == FirstLine({i \in 1..Len(order) : order[i].item_id = item_id})
      popped == [i \in 1..(Len(order) - 1) |->
                   IF i < item_idx THEN order[i] ELSE order[i + 1]]
      updated == [order EXCEPT ![item_idx] =
                    [@ EXCEPT !.quantity = quantity[1],
                              !.line_total = order[item_idx].price * quantity[1]]]
      after_quantity ==
        IF quantity = <<>> THEN order
        ELSE IF quantity[1] <= 0 THEN popped
        ELSE updated
      after_notes ==
        IF notes = <<>> THEN after_quantity
        ELSE SetNotes(after_quantity, item_idx, notes[1])
  IN  IF item_idx = 0 THEN [orders |-> orders, success |-> FALSE, raises |-> FALSE]
      ELSE IF notes # <<>> /\ ~HasLine(after_quantity, item_idx)
        THEN [orders |-> set_session_order(orders, session_id, after_quantity),
              success |-> FALSE, raises |-> TRUE]
      ELSE IF quantity = <<>> /\ notes = <<>>
        THEN [orders |-> orders, success |-> FALSE, raises |-> TRUE]
      ELSE [orders |-> set_session_order(orders, session_id, after_notes),
            success |-> TRUE, raises |-> FALSE]

\* _order_type_store[session_id] and the result of set_order_type
set_order_type(store, order_type, district, fee, session_id) ==
  LET order_type_normalized ==
        IF order_type \in {"pickup", "takeaway", "take away"} THEN "pickup"
        ELSE "delivery"
      info ==
        [present |-> TRUE, order_type |-> order_type_normalized,
         district |-> IF order_type_normalized = "delivery" THEN district
                      ELSE "branch",
         delivery_fee |-> IF order_type_normalized = "delivery" THEN fee ELSE 0]
  IN  [store |-> [store EXCEPT ![session_id] = info], result |-> info]

\* the discount and promo_message of calculate_total for one of the codes
\* written into it: the percentage with its cap, or the fixed amount, from
\* min_order up
TotalPercentage(subtotal, percent, cap, message) ==
  [discount |-> Min((subtotal * percent) \div 100, cap), promo_message |-> message]

\* calculate_total: the dict it returns; promo_code is <<>> for None
calculate_total(orders, session_id, fee, promo_code) ==
  LET order == get_session_order(orders, session_id)
      subtotal == SumLines(order)
      promo_code_upper == Upper(promo_code[1])
      none == [discount |-> 0, promo_message |-> ""]
      promo ==
        IF promo_code = <<>> THEN none
        ELSE IF promo_code_upper = "WELCOME10"
          THEN TotalPercentage(subtotal, 10, 3000, "welcome10")
        ELSE IF promo_code_upper = "FIRST20"
          THEN IF subtotal >= 10000
                 THEN TotalPercentage(subtotal, 20, 5000, "first20")
               ELSE [discount |-> 0, promo_message |-> "min_order"]
        ELSE IF promo_code_upper = "FREE15"
          THEN IF subtotal >= 7500
                 THEN [discount |-> 1500, promo_message |-> "free15"]
               ELSE [discount |-> 0, promo_message |-> "min_order"]
        ELSE [discount |-> 0, promo_message |-> "invalid_code"]
  IN  IF order = <<>>
        THEN [success |-> FALSE, subtotal |-> 0, delivery_fee |-> fee,
              discount |-> 0, total |-> 0, promo_message |-> ""]
      ELSE [success |-> TRUE, subtotal |-> subtotal, delivery_fee |-> fee,
            discount |-> promo.discount,
            total |-> subtotal + fee - promo.discount,
            promo_message |-> promo.promo_message]

\* save_order_to_database_sync: one transaction for the header and the
\* items; db_ok = FALSE is the connection or a statement failing, which rolls
\* back and returns False
save_order_to_database_sync(tables, session_id, customer_name, customer_phone, district, order_type, order_items, subtotal, fee, discount, total, db_ok) ==
  LET order_db_id == Len(tables.orders) + 1
      first_item == Len(tables.order_items)
      header ==
        [OrderHeader(session_id, customer_name, customer_phone, <<district>>,
                     NullId, order_type, subtotal, fee, discount, NullId, total)
           EXCEPT !.id = order_db_id, !.status = "confirmed"]
      rows == [i \in 1..Len(order_items) |->
                 [id |-> first_item + i, order_id |-> order_db_id,
                  menu_item_id |-> order_items[i].item_id,
                  quantity |-> order_items[i].quantity,
                  unit_price |-> order_items[i].price,
                  total_price |-> order_items[i].line_total]]
  IN  IF ~db_ok THEN [saved |-> FALSE, db |-> tables]
      ELSE [saved |-> TRUE,
            db |-> [tables EXCEPT !.orders = Append(@, header),
                                  !.order_items = @ \o rows]]

\* confirm_order: the stores it leaves and the dict it returns
confirm_order(orders, confirmed, tables, args, db_ok) ==
  LET order_items == get_session_order(orders, args.session_id)
      subtotal == SumLines(order_items)
      actual_delivery_fee ==
        IF args.order_type = "delivery" THEN args.delivery_fee ELSE 0
      total == subtotal + actual_delivery_fee - args.discount
      order_id == Len(confirmed) + 1
      order_record ==
        [order_id |-> order_id, customer_name |-> args.customer_name,
         customer_phone |-> args.customer_phone, district |-> args.district,
         order_type |-> args.order_type, items |-> order_items,
         subtotal |-> subtotal, delivery_fee |-> actual_delivery_fee,
         discount |-> args.discount, total |-> total, status |-> "confirmed"]
      write ==
        save_order_to_database_sync(
          tables, args.session_id, args.customer_name, args.customer_phone,
          args.district, args.order_type, order_items, subtotal,
          actual_delivery_fee, args.discount, total, db_ok)
      rejected ==
        [orders |-> orders, confirmed |-> confirmed, db |-> tables,
         success |-> FALSE, order_id |-> NullId, db_saved |-> FALSE]
  IN  IF order_items = <<>> THEN rejected
      ELSE IF args.customer_name = <<>> THEN rejected
      ELSE IF args.customer_phone = <<>> THEN rejected
      ELSE [orders |-> clear_session_order(orders, args.session_id),
            confirmed |-> Append(confirmed, order_record),
            db |-> write.db, success |-> TRUE, order_id |-> order_id,
            db_saved |-> write.saved]

\* the intent model is called only for a turn that is in S1_INTENT after the
\* S0_INIT step; the clock is read only by the greeter; only the checkout
\* agent writes to the order tables
IntentInputs(loaded_state) ==
  IF loaded_state \in {"S0_INIT", "S1_INTENT"} THEN IntentOutputs
  ELSE {[raised |-> TRUE, intent |-> "other"]}

HourInputs(agent) == IF agent = "greeter" THEN Hours ELSE {9}

DbInputs(agent, llm) ==
  IF agent = "checkout" /\ llm.next_action = "order_confirmed" /\ llm.is_confirmed
    THEN BOOLEAN ELSE {TRUE}

\* what the user types matters to the checkout agent only, which looks for a
\* phone number in it
MessageInputs(loaded_state) ==
  IF loaded_state = "S5_CHECKOUT" THEN UserMessages ELSE {<<"h", "i">>}

(***************************************************************************)
(* State.  sessions, promo_usage and db are the PostgreSQL tables;         *)
(* last_turn records, for the handle_message call that ran last, the state *)
(* it loaded, every value session.state took, every trigger applied and    *)
(* the session object it handed to _save_session.                          *)
(***************************************************************************)
VARIABLES sessions, promo_usage, db, last_turn

(***************************************************************************)
(* _sessions is the dict of main.py, _orders, _order_type_store and        *)
(* _confirmed_orders are the module-level stores of the tools, run is the  *)
(* graph.invoke call in progress (the node about to run, the state it      *)
(* works on, the supersteps taken and the tool calls of the current agent).*)
(* owes_checkout and last_call observe the run: owes_checkout[s] holds     *)
(* from a checkout-to-location handoff of session s until the location     *)
(* agent hands off with the order or checkout marker; last_call describes  *)
(* the step just taken when it was a confirm_order call or such a handoff. *)
(***************************************************************************)
VARIABLES _sessions, _orders, _order_type_store, _confirmed_orders, run,
          owes_checkout, last_call

VARIABLES in_flight, turn_log

(***************************************************************************)
(* lookup is one call of a function that reads no store, or only reads     *)
(* them, taken on its own: the arguments, and what the call returned (for  *)
(* the state machine's functions, once the call has been made: done).      *)
(***************************************************************************)
VARIABLES lookup

(***************************************************************************)
(* The cart functions taken on their own.  tool_call is the last call of   *)
(* add_to_order, update_order_item or remove_from_order made directly on   *)
(* _orders: its arguments, the cart before it and what it reported;        *)
(* first_before is the cart before the previous call when that call was    *)
(* the same successful add_to_order (repeats).  agent_session is a session *)
(* in S4_ORDERING to which OrderAgent.process is applied turn after turn.  *)
(***************************************************************************)
VARIABLES tool_call, agent_session

(***************************************************************************)
(* tool_result is the last call of one of the order tools or of            *)
(* confirm_order with arguments of any value: the arguments, the cart      *)
(* before the call, whether the call raised instead of returning, whether  *)
(* the dict it returned has success = False, and the number of calls made. *)
(***************************************************************************)
VARIABLES tool_result
calcVars == <<lookup, tool_call, agent_session, tool_result>>

orchVars == <<sessions, promo_usage, last_turn, in_flight, turn_log>>

graphVars ==
  <<_sessions, _orders, _order_type_store, _confirmed_orders, run, owes_checkout,
    last_call>>

vars ==
  <<sessions, promo_usage, db, last_turn, in_flight, turn_log, graphVars,
    calcVars>>

\* the value of last_turn.intent_llm for a turn that did not classify
NoIntentCall == [raised |-> FALSE, intent |-> "none"]

NoTurn ==
  [session_id |-> "none", loaded |-> "S0_INIT", states |-> <<>>, triggers |-> <<>>,
   saved |-> SessionState_from_db_row(NewRow("none")), reset_after |-> <<>>,
   intent_llm |-> NoIntentCall, llm_raised |-> FALSE, confirm_asked |-> FALSE]

NoRun ==
  [active |-> FALSE, session_id |-> "none", node |-> "END",
   state |-> NoGraphSession("none"), supersteps |-> 0, calls |-> 0, owes |-> FALSE,
   before |-> NoGraphSession("none")]

ConfirmArgs(session_id, customer_name, customer_phone, district, fee, discount, order_type) ==
  [session_id |-> session_id, customer_name |-> customer_name,
   customer_phone |-> customer_phone, district |-> district,
   delivery_fee |-> fee, discount |-> discount, order_type |-> order_type]

NoCall ==
  [kind |-> "none", args |-> ConfirmArgs("default", <<>>, <<>>, "", 0, 0, "delivery"),
   db_ok |-> TRUE, success |-> FALSE, order_before |-> <<>>, owed |-> FALSE,
   target |-> None, hour |-> opening_hour,
   state_before |-> NoGraphSession("none")]

\* the handle_message coroutines that can be between their load and their save
Calls == {1, 2}

NoFlight ==
  [active |-> FALSE, session_id |-> "none",
   loaded |-> SessionState_from_db_row(NewRow("none"))]

\* the messages a turn appended to the history it loaded
TurnMessages(loaded, final) ==
  SubSeq(final.conversation_history, Len(loaded.conversation_history) + 1,
         Len(final.conversation_history))

InitGraph ==
  /\ _sessions = [sid \in GraphSessionIds |-> NoGraphSession(sid)]
  /\ _orders = [sid \in ToolSessionIds |-> <<>>]
  /\ _order_type_store =
       [sid \in ToolSessionIds |->
          [present |-> FALSE, order_type |-> "delivery", district |-> "",
           delivery_fee |-> 0]]
  /\ _confirmed_orders = <<>>
  /\ run = NoRun
  /\ owes_checkout = [sid \in GraphSessionIds |-> FALSE]
  /\ last_call = NoCall

NoLookup ==
  [current_state |-> "S0_INIT", trigger |-> "start", result |-> None,
   valid |-> FALSE, done |-> FALSE]

\* the tables, dicts and stores of a process that has just started
InitStores ==
  /\ sessions = [sid \in SessionIds |-> NoRow(sid)]
  /\ promo_usage = [c \in PromoCodeNames |-> 0]
  /\ db = EmptyOrderTables
  /\ last_turn = NoTurn
  /\ in_flight = [p \in Calls |-> NoFlight]
  /\ turn_log = [sid \in SessionIds |-> <<>>]
  /\ InitGraph

NoToolCall ==
  [kind |-> "none", item_id |-> NullId, quantity |-> 0, notes |-> "",
   before |-> <<>>, success |-> FALSE, has_total |-> FALSE, reported |-> 0,
   repeats |-> FALSE, first_before |-> <<>>]

OrderingSession ==
  [SessionState_from_db_row(NewRow("cart")) EXCEPT !.state = "S4_ORDERING"]

NoToolResult ==
  [kind |-> "none", item_id |-> NullId, quantity |-> <<>>, notes |-> <<>>,
   before |-> <<>>, raised |-> FALSE, failed |-> FALSE, calls |-> 0]

InitCart ==
  /\ tool_call = NoToolCall
  /\ agent_session = OrderingSession
  /\ tool_result = NoToolResult

Init ==
  /\ InitStores
  /\ lookup = NoLookup
  /\ InitCart

\* hours that pass between one handle_message and the next: none, or more
\* than session_expiry_hours
ElapsedInputs == {0, session_expiry_hours + 1}

\* hours that pass between the turns of a customer who answers within the
\* hour or two
HourlyInputs == {1, session_expiry_hours}

\* the values session.state takes and the triggers that move it during one
\* handle_message; reset_after is the hours since the previous turn when the
\* access found the session expired and deleted it, as a one-element sequence;
\* intent_llm is what the intent model returned to _run_intent_detection and
\* llm_raised whether the complete_json call of the agent of the turn raised
\* the checkout model has answered order_confirmed with is_confirmed, and the
\* database is up
ConfirmAsked(agent, llm, db_ok) ==
  /\ agent = "checkout"
  /\ ~llm.raised
  /\ llm.next_action = "order_confirmed"
  /\ llm.is_confirmed
  /\ db_ok

TurnRecord(session_id, loaded, mid, final, intent_trigger, trigger, reset_after, intent_llm, llm_raised, confirm_asked) ==
  LET start == IF loaded.state = "S0_INIT" THEN <<"S1_INTENT">> ELSE <<>>
      s1 == IF loaded.state = "S0_INIT" THEN "S1_INTENT" ELSE loaded.state
      intent == IF s1 = "S1_INTENT" /\ mid.state # s1 THEN <<mid.state>> ELSE <<>>
      agent == IF final.state # mid.state \/
                  (trigger # None /\ get_next_state(mid.state, trigger) # None)
                 THEN <<final.state>> ELSE <<>>
  IN  [session_id |-> session_id, loaded |-> loaded.state,
       states |-> start \o intent \o agent,
       triggers |->
          (IF start # <<>> THEN <<"start">> ELSE <<>>)
          \o (IF intent # <<>> THEN <<intent_trigger>> ELSE <<>>)
          \o (IF agent # <<>> THEN <<trigger>> ELSE <<>>),
       saved |-> final, reset_after |-> reset_after,
       intent_llm |-> IF s1 = "S1_INTENT" THEN intent_llm ELSE NoIntentCall,
       llm_raised |-> llm_raised, confirm_asked |-> confirm_asked]

\* Orchestrator.handle_message(session_id, user_message), from the load to
\* the save
HandleMessage(hours) ==
  \E session_id \in SessionIds :
    \E table \in {get_or_create_session(Elapse(sessions, hours), session_id)} :
      \E loaded \in {_load_session(table, session_id)} :
        \E user_message \in MessageInputs(loaded.state),
           intent_llm \in IntentInputs(loaded.state) :
          \E mid \in {IntentPhase(loaded, user_message, intent_llm)} :
            \E llm \in LlmOutputs(_get_agent(mid.state)),
               hour \in HourInputs(_get_agent(mid.state)) :
              \E db_ok \in DbInputs(_get_agent(mid.state), llm) :
                \E out \in {ProcessPhase(mid, user_message, promo_usage, db, hour,
                                         llm, db_ok)} :
                  /\ Len(out.session.cart) <= MaxCart
                  /\ Len(out.session.conversation_history) <= MaxHistory
                  /\ Len(out.db.orders) <= MaxOrders
                  /\ \A c \in PromoCodeNames : out.usage[c] <= MaxUsage
                  /\ sessions' = _save_session(table, out.session)
                  /\ promo_usage' = out.usage
                  /\ db' = out.db
                  /\ last_turn' =
                       TurnRecord(session_id, loaded, mid, out.session,
                                  IntentAgent_process(intent_llm).trigger,
                                  out.trigger,
                                  IF is_expired(Elapse(sessions, hours), session_id)
                                    THEN <<hours>> ELSE <<>>,
                                  intent_llm, llm.raised,
                                  ConfirmAsked(_get_agent(mid.state), llm, db_ok))
                  /\ turn_log' =
                       [turn_log EXCEPT ![session_id] =
                          (IF sessions[session_id].exists /\
                              ~is_expired(Elapse(sessions, hours), session_id)
                             THEN @ ELSE <<>>)
                          \o TurnMessages(loaded, out.session)]
                  /\ UNCHANGED <<in_flight, graphVars, calcVars>>

\* Orchestrator.reset_session(session_id)
ResetSession ==
  \E session_id \in SessionIds :
    /\ sessions[session_id].exists
    /\ sessions' = delete_session(sessions, session_id)
    /\ last_turn' = NoTurn
    /\ turn_log' = [turn_log EXCEPT ![session_id] = <<>>]
    /\ UNCHANGED <<promo_usage, db, in_flight, graphVars, calcVars>>

Next ==
  \/ \E hours \in ElapsedInputs : HandleMessage(hours)
  \/ ResetSession

Spec == Init /\ [][Next]_vars

\* the same orchestrator serving a customer whose messages are an hour or two
\* apart
NextHourly ==
  \/ \E hours \in HourlyInputs : HandleMessage(hours)
  \/ ResetSession

SpecHourly == Init /\ [][NextHourly]_vars

(***************************************************************************)
(* handle_message is a coroutine: it awaits the repository and the         *)
(* language model, and nothing holds a lock on the session, so a second    *)
(* call for the same session can load it before the first has saved.       *)
(***************************************************************************)
\* handle_message up to "session = await self._load_session(session_id)", for
\* a session that has not expired
BeginHandleMessage(p) ==
  \E session_id \in SessionIds :
    \E table \in {get_or_create_session(sessions, session_id)} :
      /\ ~in_flight[p].active
      /\ sessions' = table
      /\ in_flight' = [in_flight EXCEPT ![p] =
                         [active |-> TRUE, session_id |-> session_id,
                          loaded |-> _load_session(table, session_id)]]
      /\ turn_log' = IF sessions[session_id].exists THEN turn_log
                     ELSE [turn_log EXCEPT ![session_id] = <<>>]
      /\ UNCHANGED <<promo_usage, db, last_turn, graphVars, calcVars>>

\* handle_message from the user message to "await self._save_session(session)"
EndHandleMessage(p) ==
  \E loaded \in {in_flight[p].loaded} :
    \E user_message \in MessageInputs(loaded.state),
       intent_llm \in IntentInputs(loaded.state) :
      \E mid \in {IntentPhase(loaded, user_message, intent_llm)} :
        \E llm \in LlmOutputs(_get_agent(mid.state)),
           hour \in HourInputs(_get_agent(mid.state)) :
          \E db_ok \in DbInputs(_get_agent(mid.state), llm) :
            \E out \in {ProcessPhase(mid, user_message, promo_usage, db, hour,
                                     llm, db_ok)} :
              /\ in_flight[p].active
              /\ Len(out.session.cart) <= MaxCart
              /\ Len(out.session.conversation_history) <= MaxHistory
              /\ Len(turn_log[loaded.session_id]) < MaxLog
              /\ Len(out.db.orders) <= MaxOrders
              /\ \A c \in PromoCodeNames : out.usage[c] <= MaxUsage
              /\ sessions' = _save_session(sessions, out.session)
              /\ promo_usage' = out.usage
              /\ db' = out.db
              /\ last_turn' =
                   TurnRecord(loaded.session_id, loaded, mid, out.session,
                              IntentAgent_process(intent_llm).trigger,
                              out.trigger, <<>>, intent_llm, llm.raised,
                              ConfirmAsked(_get_agent(mid.state), llm, db_ok))
              /\ turn_log' =
                   [turn_log EXCEPT ![loaded.session_id] =
                      @ \o TurnMessages(loaded, out.session)]
              /\ in_flight' = [in_flight EXCEPT ![p] = NoFlight]
              /\ UNCHANGED <<graphVars, calcVars>>

NextConc ==
  \/ \E p \in Calls : BeginHandleMessage(p)
  \/ \E p \in Calls : EndHandleMessage(p)

SpecConc == Init /\ [][NextConc]_vars

(***************************************************************************)
(* The LangGraph workflow as steps: process_message starts a graph.invoke, *)
(* the agent of the current node calls tools and then replies, and the     *)
(* reply either routes to the next node or ends the run, which stores the  *)
(* result in _sessions.  A run that raises stores nothing.                 *)
(***************************************************************************)
get_session_state(table, session_id) ==
  IF table[session_id].exists THEN table
  ELSE [table EXCEPT ![session_id] = create_initial_state(session_id)]

\* what the user types: plain text, or the JSON text {"order_id": 99}
GraphUserMessages ==
  {[json |-> FALSE, order_id |-> NullId], [json |-> TRUE, order_id |-> 99]}

\* state["messages"].append(HumanMessage(content=user_message))
AppendHumanMessage(messages, user_message) ==
  IF user_message.json /\ user_message.order_id # NullId
    THEN [messages EXCEPT !.order_id = user_message.order_id]
    ELSE messages

\* process_message up to the first node of graph.invoke; the message is
\* appended to the list held in _sessions
ProcessMessage ==
  \E session_id \in GraphSessionIds, user_message \in GraphUserMessages :
    LET created == get_session_state(_sessions, session_id)
        state == [created[session_id] EXCEPT
                    !.messages = AppendHumanMessage(@, user_message)]
        table == [created EXCEPT ![session_id] = state]
        node == route_by_current_agent(state)
    IN  /\ ~run.active
        /\ _sessions' = table
        /\ run' = IF node = "END" THEN NoRun
                  ELSE [active |-> TRUE, session_id |-> session_id, node |-> node,
                        state |-> state, supersteps |-> 0, calls |-> 0,
                        owes |-> owes_checkout[session_id],
                        before |-> created[session_id]]
        /\ last_call' = NoCall
        /\ UNCHANGED <<_orders, _order_type_store, _confirmed_orders, owes_checkout,
                       db, orchVars, calcVars>>

\* the arguments the agents pass to the tools: the item ids of one available
\* and one unavailable menu item, and the order types with their district and fee
ToolItemInputs == {1, 3}
OrderTypeInputs == {<<"pickup", "", 0>>, <<"delivery", "alnarjis", delivery_fee>>}

\* a tool call of the agent of node is possible
CanCall(node) == run.active /\ run.node = node /\ run.calls < MaxSteps

\* the run after a tool call whose result put messages in the message list
AfterCall(messages) ==
  [run EXCEPT !.calls = @ + 1, !.state.messages = messages]

SetOrderType ==
  \E choice \in OrderTypeInputs, session_id \in ToolSessionIds :
    LET out == set_order_type(_order_type_store, choice[1], choice[2], choice[3],
                              session_id)
    IN  /\ CanCall("location_node")
        /\ _order_type_store' = out.store
        /\ run' = AfterCall([run.state.messages EXCEPT
                               !.set_order_type = out.result])
        /\ last_call' = NoCall
        /\ UNCHANGED <<_sessions, _orders, _confirmed_orders, owes_checkout, db,
                       orchVars, calcVars>>

AddToOrder ==
  \E item_id \in ToolItemInputs, quantity \in {1}, session_id \in ToolSessionIds :
    LET out == add_to_order(_orders, item_id, quantity, "", session_id)
    IN  /\ CanCall("order_node")
        /\ Len(out.orders[session_id]) <= MaxCart
        /\ \A i \in 1..Len(out.orders[session_id]) :
             out.orders[session_id][i].quantity <= MaxQuantity
        /\ _orders' = out.orders
        /\ run' = AfterCall(IF out.success
                              THEN [run.state.messages EXCEPT
                                      !.current_total =
                                         [present |-> TRUE,
                                          value |-> out.current_total]]
                              ELSE run.state.messages)
        /\ last_call' = NoCall
        /\ UNCHANGED <<_sessions, _order_type_store, _confirmed_orders,
                       owes_checkout, db, orchVars, calcVars>>

RemoveFromOrder ==
  \E item_id \in ToolItemInputs, session_id \in ToolSessionIds :
    /\ CanCall("order_node")
    /\ _orders' = remove_from_order(_orders, item_id, session_id).orders
    /\ run' = AfterCall(run.state.messages)
    /\ last_call' = NoCall
    /\ UNCHANGED <<_sessions, _order_type_store, _confirmed_orders, owes_checkout,
                   db, orchVars, calcVars>>

UpdateOrderItem ==
  \E item_id \in ToolItemInputs, quantity \in {0, 1}, session_id \in ToolSessionIds :
    /\ CanCall("order_node")
    /\ _orders' = update_order_item(_orders, item_id, <<quantity>>, <<>>,
                                     session_id).orders
    /\ run' = AfterCall(run.state.messages)
    /\ last_call' = NoCall
    /\ UNCHANGED <<_sessions, _order_type_store, _confirmed_orders, owes_checkout,
                   db, orchVars, calcVars>>

ConfirmOrder ==
  \E session_id \in ToolSessionIds, customer_name \in {<<>>, NAME_ALI},
     customer_phone \in {<<>>, PHONE_LOCAL, PHONE_LANDLINE},
     choice \in {<<"pickup", "", 0>>}, db_ok \in BOOLEAN :
    LET args == ConfirmArgs(session_id, customer_name, customer_phone, choice[2],
                            choice[3], 0, choice[1])
        out == confirm_order(_orders, _confirmed_orders, db, args, db_ok)
    IN  /\ CanCall("checkout_node")
        /\ Len(out.confirmed) <= MaxOrders
        /\ _orders' = out.orders
        /\ _confirmed_orders' = out.confirmed
        /\ db' = out.db
        /\ run' = AfterCall(IF out.success
                              THEN [run.state.messages EXCEPT
                                      !.order_id = out.order_id]
                              ELSE run.state.messages)
        /\ last_call' =
             [NoCall EXCEPT !.kind = "confirm_order", !.args = args,
                            !.db_ok = db_ok, !.success = out.success,
                            !.order_before = _orders[session_id]]
        /\ UNCHANGED <<_sessions, _order_type_store, owes_checkout, orchVars, calcVars>>

\* the end of a node: the run goes on to the next node, ends and stores the
\* result, or raises GraphRecursionError when the step limit is used up
AfterNode(state, next, owes) ==
  IF next = "END"
    THEN /\ _sessions' = [_sessions EXCEPT ![run.session_id] = state]
         /\ owes_checkout' = [owes_checkout EXCEPT ![run.session_id] = owes]
         /\ run' = NoRun
    ELSE IF run.supersteps + 1 >= graph_recursion_limit
      THEN /\ run' = NoRun
           /\ UNCHANGED <<_sessions, owes_checkout>>
    ELSE /\ run.supersteps + 1 < MaxHops
         /\ run' = [run EXCEPT !.node = next, !.state = state,
                               !.supersteps = @ + 1, !.calls = 0, !.owes = owes]
         /\ UNCHANGED <<_sessions, owes_checkout>>

\* call_greeting_agent, run at the local hour given: the node neither reads
\* the clock nor calls is_restaurant_open
GreetingReply ==
  \E content \in Contents, hour \in Hours :
    LET state == call_greeting_agent(run.state, content)
    IN  /\ run.active /\ run.node = "greeting_node"
        /\ AfterNode(state, route_after_greeting(state), run.owes)
        /\ last_call' = [NoCall EXCEPT !.kind = "greeting", !.hour = hour,
                                       !.target = state.current_agent]
        /\ UNCHANGED <<_orders, _order_type_store, _confirmed_orders, db, orchVars, calcVars>>

LocationReply ==
  \E content \in Contents :
    LET state == call_location_agent(run.state, _order_type_store, content)
        forward == extract_handoff(content) \in {"order", "checkout"}
    IN  /\ run.active /\ run.node = "location_node"
        /\ AfterNode(state, route_after_location(state),
                     IF forward THEN FALSE ELSE run.owes)
        /\ last_call' =
             IF forward
               THEN [NoCall EXCEPT !.kind = "location_handoff", !.owed = run.owes,
                                   !.target = state.current_agent]
               ELSE NoCall
        /\ UNCHANGED <<_orders, _order_type_store, _confirmed_orders, db, orchVars, calcVars>>

OrderReply ==
  \E content \in Contents :
    LET state == call_order_agent(run.state, content)
    IN  /\ run.active /\ run.node = "order_node"
        /\ AfterNode(state, route_after_order(state), run.owes)
        /\ last_call' = NoCall
        /\ UNCHANGED <<_orders, _order_type_store, _confirmed_orders, db, orchVars, calcVars>>

CheckoutReply ==
  \E content \in Contents :
    LET state == call_checkout_agent(run.state, content)
    IN  /\ run.active /\ run.node = "checkout_node"
        /\ AfterNode(state, route_after_checkout(state),
                     IF extract_handoff(content) = "location" THEN TRUE ELSE run.owes)
        /\ last_call' = NoCall
        /\ UNCHANGED <<_orders, _order_type_store, _confirmed_orders, db, orchVars, calcVars>>

\* a process_message whose except branch stores the state the run had reached
InvokeFailsAndStores ==
  /\ run.active
  /\ _sessions' = [_sessions EXCEPT ![run.session_id] = run.state]
  /\ run' = NoRun
  /\ last_call' = [NoCall EXCEPT !.kind = "invoke_failed",
                                 !.target = run.state.current_agent,
                                 !.state_before = run.before]
  /\ UNCHANGED <<_orders, _order_type_store, _confirmed_orders,
                 owes_checkout, db, orchVars, calcVars>>

\* the language model call of the current agent raises: graph.invoke raises
\* and process_message returns the apology without storing a result
InvokeFails ==
  /\ run.active
  /\ run' = NoRun
  /\ last_call' = [NoCall EXCEPT !.kind = "invoke_failed",
                                 !.target = run.state.current_agent,
                                 !.state_before = run.before]
  /\ UNCHANGED <<_sessions, _orders, _order_type_store, _confirmed_orders,
                 owes_checkout, db, orchVars, calcVars>>

\* reset_session of main.py
ResetGraphSession ==
  \E session_id \in GraphSessionIds :
    /\ ~run.active
    /\ _sessions[session_id].exists
    /\ _sessions' = [_sessions EXCEPT ![session_id] = NoGraphSession(session_id)]
    /\ owes_checkout' = [owes_checkout EXCEPT ![session_id] = FALSE]
    /\ last_call' = NoCall
    /\ UNCHANGED <<_orders, _order_type_store, _confirmed_orders, run, db, orchVars, calcVars>>

NextGraph ==
  \/ ProcessMessage
  \/ SetOrderType
  \/ AddToOrder
  \/ RemoveFromOrder
  \/ UpdateOrderItem
  \/ ConfirmOrder
  \/ GreetingReply
  \/ LocationReply
  \/ OrderReply
  \/ CheckoutReply
  \/ InvokeFails
  \/ ResetGraphSession

SpecGraph == Init /\ [][NextGraph]_vars

(***************************************************************************)
(* Properties of the Orchestrator turn                                     *)
(***************************************************************************)
TurnRan == last_turn.session_id # "none"

SavedRow == sessions[last_turn.session_id]

\* the state session.state held before the i-th assignment of the turn
StateBefore(i) == IF i = 1 THEN last_turn.loaded ELSE last_turn.states[i - 1]

\* C1 (as the code has it): the state a turn saves is the state it loaded or
\* is reached from it by a chain of at most three entries of the transition
\* table; a chain of two or more entries occurs only for a turn that loaded
\* S0_INIT, every other turn applies at most one entry, and S1_INTENT is
\* never saved.
C1_TurnFollowsTable ==
  TurnRan =>
    /\ Len(last_turn.states) <= 3
    /\ Len(last_turn.triggers) = Len(last_turn.states)
    /\ \A i \in 1..Len(last_turn.states) :
         /\ last_turn.triggers[i] \in DOMAIN TRANSITIONS[StateBefore(i)]
         /\ TRANSITIONS[StateBefore(i)][last_turn.triggers[i]] = last_turn.states[i]
    /\ (Len(last_turn.states) >= 2 => last_turn.loaded = "S0_INIT")
    /\ SavedRow.exists
    /\ SavedRow.state = StateBefore(Len(last_turn.states) + 1)
    /\ SavedRow.state # "S1_INTENT"

\* a turn that loaded S0_INIT and saved S3_LOCATION after three entries
C1_Witness_ThreeTransitions ==
  /\ TurnRan
  /\ last_turn.loaded = "S0_INIT"
  /\ last_turn.triggers = <<"start", "intent_ordering", "confirm_order">>
  /\ SavedRow.state = "S3_LOCATION"

\* C1 (as stated): the saved state equals the loaded state or is one table
\* entry away from it
C1_AtMostOneTransition ==
  TurnRan =>
    \/ SavedRow.state = last_turn.loaded
    \/ \E t \in DOMAIN TRANSITIONS[last_turn.loaded] :
         TRANSITIONS[last_turn.loaded][t] = SavedRow.state

\* C4: a turn whose agent result carries the cancel trigger ends in S0_INIT
\* with an empty cart
C4_CancelEmptiesCart ==
  (TurnRan /\ \E i \in 1..Len(last_turn.triggers) : last_turn.triggers[i] = "cancel")
    => (SavedRow.state = "S0_INIT" /\ SavedRow.cart = <<>>)

\* C6: every step either writes nothing to the order tables and the promo
\* counters, or writes one order header together with its items and, when
\* the header references a promo, exactly one increment of that promo
C6_OrderCreationAtomic ==
  [][\/ (db' = db /\ promo_usage' = promo_usage)
     \/ /\ Len(db'.orders) = Len(db.orders) + 1
        /\ Len(db'.order_items) > Len(db.order_items)
        /\ \A c \in PromoCodeNames :
             promo_usage'[c] =
               promo_usage[c] +
                 (IF db'.orders[Len(db'.orders)].promo_code_id = PROMO_CODES[c].id
                    THEN 1 ELSE 0)]_vars

\* C7: a promo code's usage_count is the number of created orders that
\* reference it
C7_UsageCountsOrders ==
  \A c \in PromoCodeNames :
    promo_usage[c] =
      Cardinality({i \in 1..Len(db.orders) :
                     db.orders[i].promo_code_id = PROMO_CODES[c].id})

\* C10: loading the row a turn saved gives back the session the turn saved
C10_SaveLoadRoundTrip ==
  TurnRan =>
    LET reloaded == _load_session(sessions, last_turn.session_id)
        saved == last_turn.saved
    IN  /\ reloaded.state = saved.state
        /\ reloaded.cart = saved.cart
        /\ reloaded.location = saved.location
        /\ reloaded.customer_name = saved.customer_name
        /\ reloaded.customer_phone = saved.customer_phone
        /\ reloaded.applied_promo_code = saved.applied_promo_code

(***************************************************************************)
(* Properties of the graph workflow and its tools                          *)
(***************************************************************************)
\* a turn of the graph workflow has ended for session_id and left a state
TurnEnded(session_id) == ~run.active /\ _sessions[session_id].exists

\* C2: whenever a turn ends with the session in the checkout state
\* (Orchestrator state S5_CHECKOUT, graph current_agent = "checkout", no order
\* confirmed yet), the session's cart holds at least one line.
C2_CheckoutHasCart ==
  /\ \A session_id \in SessionIds :
       sessions[session_id].exists /\ sessions[session_id].state = "S5_CHECKOUT"
         => sessions[session_id].cart # <<>>
  /\ \A session_id \in GraphSessionIds :
       /\ TurnEnded(session_id)
       /\ _sessions[session_id].current_agent = "checkout"
       /\ _confirmed_orders = <<>>
       => \E tool_session \in ToolSessionIds : _orders[tool_session] # <<>>

\* C3: a handoff of the location agent with the marker order or checkout sets
\* current_agent to checkout when the checkout agent has handed off to
\* location since the last such handoff, and to order otherwise.
C3_LocationReturnsToCheckout ==
  last_call.kind = "location_handoff"
    => last_call.target = IF last_call.owed THEN "checkout" ELSE "order"

\* C8: a confirm_order call whose database write fails returns success=false
\* and leaves the cart as it was before the call.
C8_FailedWriteKeepsCart ==
  last_call.kind = "confirm_order" /\ ~last_call.db_ok
    => /\ ~last_call.success
       /\ _orders[last_call.args.session_id] = last_call.order_before

\* C9: a confirm_order call that returns success had a non-empty cart, a
\* non-empty customer name and a phone that is a valid Saudi mobile number
\* after numeral normalization.
C9_ConfirmOrderValidates ==
  last_call.kind = "confirm_order" /\ last_call.success
    => /\ last_call.order_before # <<>>
       /\ last_call.args.customer_name # <<>>
       /\ validate_saudi_phone(normalize_numerals(last_call.args.customer_phone)).valid

(***************************************************************************)
(* Properties of overlapping handle_message calls                          *)
(***************************************************************************)
\* C5: when no handle_message call for a session is between its load and its
\* save, the saved history holds the user message and the reply of every
\* turn of the session, in the order the turns ended.
C5_OverlappingTurnsSerialize ==
  \A session_id \in SessionIds :
    /\ sessions[session_id].exists
    /\ \A p \in Calls : ~(in_flight[p].active /\ in_flight[p].session_id = session_id)
    => _load_session(sessions, session_id).conversation_history = turn_log[session_id]

(***************************************************************************)
(* Session expiry (Spec, SpecHourly)                                       *)
(***************************************************************************)
\* the session a handle_message loads from the row the access returns
SessionAfter(session_id, hours) ==
  _load_session(get_or_create_session(Elapse(sessions, hours), session_id),
                session_id)

\* C11: a session whose expires_at lies in the past is deleted on its next
\* access and rebuilt empty: the session get_or_create_session returns is in
\* S0_INIT with an empty cart, an empty history and no customer, location or
\* promo data, and the turn that made the access starts from S0_INIT.
C11_ExpiredSessionRebuilt ==
  /\ \A session_id \in SessionIds, hours \in 0..(session_expiry_hours + 1) :
        is_expired(Elapse(sessions, hours), session_id) =>
          LET session == SessionAfter(session_id, hours)
          IN  /\ session.state = "S0_INIT"
              /\ session.cart = <<>>
              /\ session.conversation_history = <<>>
              /\ session.customer_name = <<>>
              /\ session.customer_phone = <<>>
              /\ session.location = EmptyLocation
              /\ session.order_type = None
              /\ session.applied_promo_code = None
  /\ last_turn.reset_after # <<>> => last_turn.loaded = "S0_INIT"

\* a turn has just run whose access found the session expired
C11_Witness_ExpiredAccess ==
  /\ last_turn.reset_after # <<>>
  /\ last_turn.states # <<>>
  /\ sessions[last_turn.session_id].exists

\* C12: a session is deleted for expiry only when the inactivity window
\* (session_expiry_hours) has passed since its last turn: an access made
\* less than that after the previous turn never deletes and resets it.
C12_ExpiryFollowsLastTurn ==
  last_turn.reset_after # <<>> =>
    last_turn.reset_after[1] >= session_expiry_hours

(***************************************************************************)
(* sawt/state/machine.py taken on its own: one call of get_next_state and  *)
(* is_valid_transition for every state and every trigger (SpecMachine)     *)
(***************************************************************************)
LookupInputs ==
  {[NoLookup EXCEPT !.current_state = s, !.trigger = t] : s \in State, t \in Trigger}

InitMachine ==
  /\ InitStores
  /\ lookup \in LookupInputs
  /\ InitCart

\* get_next_state(current_state, trigger) and
\* is_valid_transition(current_state, trigger)
GetNextState ==
  /\ ~lookup.done
  /\ lookup' =
       [lookup EXCEPT
          !.result = get_next_state(lookup.current_state, lookup.trigger),
          !.valid = is_valid_transition(lookup.current_state, lookup.trigger),
          !.done = TRUE]
  /\ UNCHANGED <<sessions, promo_usage, db, last_turn, in_flight, turn_log,
                 graphVars, tool_call, agent_session, tool_result>>

NextMachine == GetNextState

SpecMachine == InitMachine /\ [][NextMachine]_vars

\* the transitions the statement lists, as <<state, trigger, next state>>
ListedTransitions ==
  {<<"S0_INIT", "start", "S1_INTENT">>,
   <<"S1_INTENT", "intent_ordering", "S2_GREETING">>,
   <<"S1_INTENT", "intent_complaint", "S_COMPLAINT">>,
   <<"S1_INTENT", "intent_inquiry", "S_FALLBACK">>,
   <<"S1_INTENT", "intent_other", "S_FALLBACK">>,
   <<"S2_GREETING", "confirm_order", "S3_LOCATION">>,
   <<"S2_GREETING", "restaurant_closed", "S6_FINALIZED">>,
   <<"S3_LOCATION", "address_valid", "S4_ORDERING">>,
   <<"S3_LOCATION", "pickup_chosen", "S4_ORDERING">>,
   <<"S4_ORDERING", "checkout", "S5_CHECKOUT">>,
   <<"S5_CHECKOUT", "order_confirmed", "S6_FINALIZED">>}

\* C13: get_next_state returns the listed next state for every listed pair
\* of state and trigger, which is_valid_transition accepts, and returns None,
\* with is_valid_transition false, for every pair the table does not define
\* (S0_INIT with checkout among them).
C13_GetNextStateFollowsTable ==
  lookup.done =>
    /\ \A t \in ListedTransitions :
         (lookup.current_state = t[1] /\ lookup.trigger = t[2]) =>
           (lookup.result = t[3] /\ lookup.valid)
    /\ lookup.trigger \notin DOMAIN TRANSITIONS[lookup.current_state] =>
         (lookup.result = None /\ ~lookup.valid)
    /\ (lookup.current_state = "S0_INIT" /\ lookup.trigger = "checkout") =>
         (lookup.result = None /\ ~lookup.valid)

\* the lookup of S0_INIT with checkout has been made and found no transition
C13_Witness_UndefinedPair ==
  /\ lookup.done
  /\ lookup.current_state = "S0_INIT"
  /\ lookup.trigger = "checkout"
  /\ lookup.result = None

(***************************************************************************)
(* Handoffs of the graph workflow (SpecGraph)                              *)
(***************************************************************************)
\* C14: a handoff of the location agent takes effect (current_agent becomes
\* order or checkout) only if set_order_type has returned success since the
\* location agent was entered.  set_order_type always succeeds and writes
\* _order_type_store, so an effective handoff needs at least an entry there.
C14_HandoffNeedsOrderType ==
  (last_call.kind = "location_handoff" /\ last_call.target \in {"order", "checkout"}) =>
    \E session_id \in ToolSessionIds : _order_type_store[session_id].present

(***************************************************************************)
(* The location and greeting turns of the Orchestrator (Spec)              *)
(***************************************************************************)
\* C15: whenever a turn fires address_valid, the area the session names is a
\* covered area and location.area_id is its id; a turn whose area is found
\* not covered does not fire address_valid.
C15_AddressValidMeansCovered ==
  (TurnRan /\ \E i \in DOMAIN last_turn.triggers :
                last_turn.triggers[i] = "address_valid") =>
    LET location == last_turn.saved.location
        coverage == check_coverage(location.area_name_ar)
    IN  /\ coverage.covered
        /\ coverage.area.id = location.area_id

\* C16 (graph workflow): a greeting turn handled while the restaurant is
\* closed never ends with a forward move to the location agent.
C16_ClosedGreetingStaysPut ==
  (last_call.kind = "greeting" /\ ~is_restaurant_open(last_call.hour)) =>
    last_call.target # "location"

\* C17: a handoff marker whose target is outside the vocabulary of the agent
\* that emitted it is dropped.  For the greeting agent the vocabulary is
\* location and end: after its reply current_agent is one of these or is
\* still greeting.
C17_GreetingHandoffInVocabulary ==
  last_call.kind = "greeting" =>
    last_call.target \in {"greeting", "location", "end"}

\* C18: order_id and order_confirmed of a graph session change only because
\* of a tool message: a session marked confirmed carries the id of an order
\* that confirm_order has confirmed.
C18_ConfirmedByToolOnly ==
  \A session_id \in GraphSessionIds :
    (_sessions[session_id].exists /\ _sessions[session_id].order_confirmed) =>
      \E i \in DOMAIN _confirmed_orders :
        _confirmed_orders[i].order_id = _sessions[session_id].order_id

(***************************************************************************)
(* The cart of the tools (sawt/tools/order_tools.py) and the cart of the   *)
(* order agent (sawt/agents/order_agent.py) under any sequence of calls    *)
(* (SpecCart)                                                              *)
(***************************************************************************)
MaxAdd == 2             \* quantity of one add_to_order call
MaxLineQuantity == 4    \* quantity of one cart line

CartItemInputs == {1, 3}
CartNotes == {"", "hot"}

\* the record of a call made on the cart before
ToolCall(kind, item_id, quantity, notes, before, out, has_total, reported) ==
  [kind |-> kind, item_id |-> item_id, quantity |-> quantity, notes |-> notes,
   before |-> before, success |-> out.success, has_total |-> has_total,
   reported |-> reported,
   repeats |-> /\ kind = "add" /\ out.success
               /\ tool_call.kind = "add" /\ tool_call.success
               /\ tool_call.item_id = item_id
               /\ tool_call.quantity = quantity
               /\ tool_call.notes = notes,
   first_before |-> tool_call.before]

LinesWithin(order) ==
  /\ Len(order) <= MaxCart
  /\ \A i \in DOMAIN order : order[i].quantity <= MaxLineQuantity

otherVars ==
  <<_sessions, _order_type_store, _confirmed_orders, run, owes_checkout,
    last_call, db, orchVars, lookup, tool_result>>

\* add_to_order(item_id, quantity, notes) called on the cart as it is
CallAddToOrder ==
  \E item_id \in CartItemInputs, quantity \in 1..MaxAdd, notes \in CartNotes,
     session_id \in ToolSessionIds :
    \E out \in {add_to_order(_orders, item_id, quantity, notes, session_id)} :
      /\ LinesWithin(out.orders[session_id])
      /\ _orders' = out.orders
      /\ tool_call' = ToolCall("add", item_id, quantity, notes,
                               _orders[session_id], out, out.success,
                               out.current_total)
      /\ UNCHANGED <<otherVars, agent_session>>

\* update_order_item(item_id, quantity)
CallUpdateOrderItem ==
  \E item_id \in CartItemInputs, quantity \in {0, MaxAdd + 1},
     session_id \in ToolSessionIds :
    \E out \in {update_order_item(_orders, item_id, <<quantity>>, <<>>,
                                   session_id)} :
      /\ LinesWithin(out.orders[session_id])
      /\ _orders' = out.orders
      /\ tool_call' = ToolCall("update", item_id, quantity, "",
                               _orders[session_id], out, FALSE, 0)
      /\ UNCHANGED <<otherVars, agent_session>>

\* remove_from_order(item_id)
CallRemoveFromOrder ==
  \E item_id \in CartItemInputs, session_id \in ToolSessionIds :
    \E out \in {remove_from_order(_orders, item_id, session_id)} :
      /\ _orders' = out.orders
      /\ tool_call' = ToolCall("remove", item_id, 0, "", _orders[session_id],
                               out, out.success, out.new_subtotal)
      /\ UNCHANGED <<otherVars, agent_session>>

\* the cart actions the order agent is told to take
AgentCartActions ==
  {CartAction("add", 1, 1, <<>>), CartAction("add", 2, MaxAdd, <<1>>),
   CartAction("add", 3, 1, <<>>), CartAction("remove", 1, 1, <<>>),
   CartAction("update", 2, MaxAdd + 1, <<>>)}

\* OrderAgent.process on the session, its session_updates applied as
\* handle_message applies them
OrderAgentProcess ==
  \E action \in AgentCartActions :
    \E out \in {OrderAgent_process(agent_session,
                    [raised |-> FALSE, cart_action |-> action,
                     next_action |-> "continue_ordering"])} :
      \E session \in {_apply_session_updates(agent_session, out.session_updates)} :
        /\ Len(session.cart) <= MaxCart
        /\ agent_session' = session
        /\ UNCHANGED <<otherVars, _orders, tool_call>>

NextCart ==
  \/ CallAddToOrder
  \/ CallUpdateOrderItem
  \/ CallRemoveFromOrder
  \/ OrderAgentProcess

SpecCart == Init /\ [][NextCart]_vars

LinesOf(order) ==
  {i \in DOMAIN order :
     order[i].item_id = tool_call.item_id /\ order[i].notes = tool_call.notes}

\* C20: add_to_order(id, n) called twice with the same notes leaves the cart
\* equal to the cart after one add_to_order(id, 2n) with those notes; on a
\* cart that had no such line it leaves one line for the item and notes,
\* with quantity 2n and line_total = price x 2n.
C20_AddTwiceIsAddDouble ==
  tool_call.repeats =>
    \A session_id \in ToolSessionIds :
      LET start == set_session_order(_orders, session_id, tool_call.first_before)
          once == add_to_order(start, tool_call.item_id, 2 * tool_call.quantity,
                               tool_call.notes, session_id)
          order == _orders[session_id]
      IN  /\ once.success
          /\ order = once.orders[session_id]
          /\ LinesOf(tool_call.first_before) = {} =>
                /\ Cardinality(LinesOf(order)) = 1
                /\ \A i \in LinesOf(order) :
                     /\ order[i].quantity = 2 * tool_call.quantity
                     /\ order[i].line_total =
                          MenuPrice[tool_call.item_id] * 2 * tool_call.quantity

\* add_to_order(1, 2, "hot") has been called twice running on a cart that
\* had another line and no line of item 1 with these notes
C20_Witness_AddedTwice ==
  /\ tool_call.repeats
  /\ tool_call.quantity = MaxAdd
  /\ tool_call.notes = "hot"
  /\ tool_call.first_before # <<>>
  /\ LinesOf(tool_call.first_before) = {}

(***************************************************************************)
(* The order tools and confirm_order called with arguments of any value    *)
(* (SpecTools)                                                             *)
(***************************************************************************)
MaxCalls == 3           \* tool calls made on the stores

ToolItemArgs == {1, 2, 3}
ToolQuantityArgs == {-1, 1, max_quantity + 1}
ToolUpdateQuantityArgs == {<<>>, <<-1>>, <<0>>, <<max_quantity>>, <<max_quantity + 1>>}
ToolUpdateNotesArgs == {<<>>, <<"hot">>}

ToolResult(kind, item_id, quantity, notes, session_id, raised, failed) ==
  [kind |-> kind, item_id |-> item_id, quantity |-> quantity, notes |-> notes,
   before |-> _orders[session_id], raised |-> raised, failed |-> failed,
   calls |-> tool_result.calls + 1]

otherToolVars ==
  <<_sessions, _order_type_store, run, owes_checkout, last_call, orchVars,
    lookup, tool_call, agent_session>>

ToolAddToOrder ==
  \E item_id \in ToolItemArgs, quantity \in ToolQuantityArgs, notes \in CartNotes,
     session_id \in ToolSessionIds :
    \E out \in {add_to_order(_orders, item_id, quantity, notes, session_id)} :
      /\ tool_result.calls < MaxCalls
      /\ Len(out.orders[session_id]) <= MaxCart
      /\ _orders' = out.orders
      /\ tool_result' = ToolResult("add_to_order", item_id, <<quantity>>, <<notes>>,
                                   session_id, FALSE, ~out.success)
      /\ UNCHANGED <<otherToolVars, _confirmed_orders, db>>

ToolUpdateOrderItem ==
  \E item_id \in ToolItemArgs, quantity \in ToolUpdateQuantityArgs,
     notes \in ToolUpdateNotesArgs, session_id \in ToolSessionIds :
    \E out \in {update_order_item(_orders, item_id, quantity, notes, session_id)} :
      /\ tool_result.calls < MaxCalls
      /\ _orders' = out.orders
      /\ tool_result' = ToolResult("update_order_item", item_id, quantity, notes,
                                   session_id, out.raises,
                                   ~out.raises /\ ~out.success)
      /\ UNCHANGED <<otherToolVars, _confirmed_orders, db>>

ToolRemoveFromOrder ==
  \E item_id \in ToolItemArgs, session_id \in ToolSessionIds :
    \E out \in {remove_from_order(_orders, item_id, session_id)} :
      /\ tool_result.calls < MaxCalls
      /\ _orders' = out.orders
      /\ tool_result' = ToolResult("remove_from_order", item_id, <<>>, <<>>,
                                   session_id, FALSE, ~out.success)
      /\ UNCHANGED <<otherToolVars, _confirmed_orders, db>>

\* the dict of get_current_order has no success key
ToolGetCurrentOrder ==
  \E session_id \in ToolSessionIds :
    \E out \in {get_current_order(_orders, session_id)} :
      /\ tool_result.calls < MaxCalls
      /\ _orders' = out.orders
      /\ tool_result' = ToolResult("get_current_order", NullId, <<>>, <<>>,
                                   session_id, FALSE, FALSE)
      /\ UNCHANGED <<otherToolVars, _confirmed_orders, db>>

ToolConfirmOrder ==
  \E session_id \in ToolSessionIds, customer_name \in {<<>>, NAME_ALI},
     customer_phone \in {<<>>, PHONE_LOCAL}, db_ok \in BOOLEAN :
    \E out \in {confirm_order(_orders, _confirmed_orders, db,
                              ConfirmArgs(session_id, customer_name,
                                          customer_phone, "", 0, 0, "pickup"),
                              db_ok)} :
      /\ tool_result.calls < MaxCalls
      /\ Len(out.confirmed) <= MaxOrders
      /\ _orders' = out.orders
      /\ _confirmed_orders' = out.confirmed
      /\ db' = out.db
      /\ tool_result' = ToolResult("confirm_order", NullId, <<>>, <<>>,
                                   session_id, FALSE, ~out.success)
      /\ UNCHANGED otherToolVars

NextTools ==
  \/ ToolAddToOrder
  \/ ToolUpdateOrderItem
  \/ ToolRemoveFromOrder
  \/ ToolGetCurrentOrder
  \/ ToolConfirmOrder

SpecTools == Init /\ [][NextTools]_vars

\* the quantity argument of the last call is given and validate_quantity
\* does not accept it
QuantityOutOfRange ==
  /\ tool_result.kind \in {"add_to_order", "update_order_item"}
  /\ tool_result.quantity # <<>>
  /\ ~validate_quantity(tool_result.quantity[1])

\* C21: every cart line has a quantity in [1, 99]; add_to_order and
\* update_order_item called for a line they can act on with a quantity outside
\* that range return success = False, except update_order_item with quantity
\* 0, which removes the line.
C21_QuantityInRange ==
  /\ \A session_id \in ToolSessionIds :
       \A i \in DOMAIN _orders[session_id] :
         validate_quantity(_orders[session_id][i].quantity)
  /\ (QuantityOutOfRange /\ ~tool_result.raised
        /\ ~(tool_result.kind = "update_order_item" /\ tool_result.quantity = <<0>>))
       => tool_result.failed

\* C22: every call of add_to_order, update_order_item, remove_from_order and
\* get_current_order returns a dict, whatever the arguments and the cart:
\* none of them raises.
C22_ToolsReturn ==
  tool_result.kind \in {"add_to_order", "update_order_item", "remove_from_order",
                        "get_current_order"}
    => ~tool_result.raised

\* C23: a call of add_to_order, update_order_item, remove_from_order or
\* confirm_order that returns success = False leaves the cart of the session
\* as it was before the call.
C23_FailedCallKeepsCart ==
  tool_result.failed =>
    \A session_id \in ToolSessionIds : _orders[session_id] = tool_result.before

\* a call has failed on a cart that holds a line: an add_to_order of an item
\* that is not on the menu, or a confirm_order with no name
C23_Witness_FailedOnCart ==
  /\ tool_result.failed
  /\ tool_result.before # <<>>
  /\ tool_result.kind \in {"add_to_order", "remove_from_order", "confirm_order"}

(***************************************************************************)
(* Promo codes and totals: PromoRepository.validate_promo on any promo row  *)
(* and the calculate_total tool on any cart (SpecPromo); the confirm_order *)
(* tool on any cart (SpecTotals)                                           *)
(***************************************************************************)
\* the rows validate_promo can fetch: the seeded ones, and the seeded FIRST20
\* and FREE15 with one column changed at a time
PromoRowInputs ==
  {PROMO_CODES[c] : c \in PromoCodeNames} \cup
  {[PROMO_CODES["FIRST20"] EXCEPT !.is_active = FALSE],
   [PROMO_CODES["FIRST20"] EXCEPT !.usage_limit = 1],
   [PROMO_CODES["FIRST20"] EXCEPT !.valid_from = <<1>>],
   [PROMO_CODES["FIRST20"] EXCEPT !.valid_from = <<-1>>, !.valid_until = <<1>>],
   [PROMO_CODES["FIRST20"] EXCEPT !.valid_until = <<-1>>],
   [PROMO_CODES["FIRST20"] EXCEPT !.max_discount = 0],
   [PROMO_CODES["FREE15"] EXCEPT !.min_order_amount = 0]}

PromoInputs ==
  {[found |-> found, row |-> row, usage_count |-> usage_count] :
     found \in BOOLEAN, row \in PromoRowInputs, usage_count \in {0, 1}}

\* 10, 99.99, 100 and 500 riyals
SubtotalInputs == {1000, 9999, 10000, 50000}

PromoCodeArgs == {<<>>, <<"welcome10">>, <<"FIRST20">>, <<"FREE15">>, <<"SAVE50">>}

PromoLookup(kind, promo, subtotal, discount, message) ==
  [kind |-> kind, promo |-> promo, subtotal |-> subtotal, discount |-> discount,
   message |-> message]

NoPromoLookup ==
  PromoLookup("none", get_promo_by_code([c \in PromoCodeNames |-> 0], "none"),
              0, 0, "")

InitPromo ==
  /\ InitStores
  /\ InitCart
  /\ lookup = NoPromoLookup

\* validate_promo(code, subtotal) when get_promo_by_code fetches promo
ValidatePromo ==
  \E promo \in PromoInputs, subtotal \in SubtotalInputs :
    \E out \in {validate_promo_of(promo, subtotal)} :
      /\ promo.found \/ (promo.usage_count = 0 /\ promo.row = PROMO_CODES["WELCOME10"])
      /\ lookup' = PromoLookup("validate_promo", promo, subtotal, out.discount,
                               out.message_ar)
      /\ UNCHANGED <<orchVars, db, graphVars, tool_call, agent_session, tool_result>>

\* calculate_total(session_id, delivery_fee, promo_code) on the cart as it
\* is, the promo_codes table holding the seeded rows
CalculateTotal ==
  \E promo_code \in PromoCodeArgs, session_id \in ToolSessionIds :
    \E out \in {calculate_total(_orders, session_id, delivery_fee, promo_code)} :
      /\ promo_code # <<>>
      /\ out.success
      /\ lookup' = PromoLookup("calculate_total",
                               get_promo_by_code(promo_usage, promo_code[1]),
                               out.subtotal, out.discount, out.promo_message)
      /\ UNCHANGED <<orchVars, db, graphVars, tool_call, agent_session, tool_result>>

\* add_to_order on the cart calculate_total reads
FillCart ==
  \E item_id \in MenuAvailable, quantity \in 1..MaxAdd, session_id \in ToolSessionIds :
    \E out \in {add_to_order(_orders, item_id, quantity, "", session_id)} :
      /\ LinesWithin(out.orders[session_id])
      /\ _orders' = out.orders
      /\ UNCHANGED <<otherVars, lookup, tool_call, agent_session>>

\* the discount and the order type the checkout agent passes to confirm_order:
\* no discount, or the 15 riyals of FREE15
DiscountArgs == {0, PROMO_CODES["FREE15"].discount_value}
OrderTypeArgs == {"pickup", "delivery"}

\* confirm_order(session_id, customer_name, customer_phone, district,
\* delivery_fee, discount, order_type) on the cart as it is
ConfirmTotal ==
  \E session_id \in ToolSessionIds, discount \in DiscountArgs,
     order_type \in OrderTypeArgs :
    \E out \in {confirm_order(_orders, _confirmed_orders, db,
                              ConfirmArgs(session_id, NAME_ALI, PHONE_LOCAL,
                                          "alnarjis", delivery_fee, discount,
                                          order_type),
                              TRUE)} :
      /\ out.success
      /\ Len(out.confirmed) <= MaxOrders
      /\ _orders' = out.orders
      /\ _confirmed_orders' = out.confirmed
      /\ db' = out.db
      /\ UNCHANGED <<_sessions, _order_type_store, run, owes_checkout, last_call,
                     orchVars, calcVars>>

NextPromo ==
  \/ ValidatePromo
  \/ CalculateTotal
  \/ FillCart

\* the carts customers fill and the orders confirm_order makes of them
\* (SpecTotals)
NextTotals ==
  \/ FillCart
  \/ ConfirmTotal

SpecTotals == Init /\ [][NextTotals]_vars

SpecPromo == InitPromo /\ [][NextPromo]_vars

\* the reasons the promo row gives to reject the code for a subtotal
PromoRejected(promo, subtotal) ==
  \/ ~promo.found
  \/ ~promo.row.is_active
  \/ promo.row.valid_from # <<>> /\ promo.row.valid_from[1] > 0
  \/ promo.row.valid_until # <<>> /\ promo.row.valid_until[1] < 0
  \/ promo.row.usage_limit # 0 /\ promo.usage_count >= promo.row.usage_limit
  \/ subtotal < promo.row.min_order_amount

\* the discount the promo row gives on a subtotal
PromoDiscount(promo, subtotal) ==
  IF promo.row.discount_type = "percentage"
    THEN IF promo.row.max_discount # 0
           THEN Min((subtotal * promo.row.discount_value) \div 100,
                    promo.row.max_discount)
         ELSE (subtotal * promo.row.discount_value) \div 100
  ELSE Min(promo.row.discount_value, subtotal)

\* C24: validate_promo and calculate_total give a percentage code the
\* discount min(subtotal x pct / 100, max_discount) and a fixed code its
\* value clamped to the subtotal; a code that is unknown, inactive, outside
\* its validity dates, at its usage limit or used below its minimum order
\* gets discount 0 and a message.
C24_PromoDiscountRule ==
  lookup.kind \in {"validate_promo", "calculate_total"} =>
    IF PromoRejected(lookup.promo, lookup.subtotal)
      THEN lookup.discount = 0 /\ lookup.message # ""
    ELSE lookup.discount = PromoDiscount(lookup.promo, lookup.subtotal)

\* the half of C24 that is about validate_promo
ValidatePromoFollowsRule ==
  lookup.kind = "validate_promo" =>
    IF PromoRejected(lookup.promo, lookup.subtotal)
      THEN lookup.discount = 0 /\ lookup.message # ""
    ELSE lookup.discount = PromoDiscount(lookup.promo, lookup.subtotal)

\* the amounts of an order header or order record add up
AmountsAddUp(order_type, subtotal, fee, discount, total) ==
  /\ total = subtotal + fee - discount
  /\ order_type = "pickup" => fee = 0
  /\ 0 <= discount /\ discount <= subtotal
  /\ total >= fee
  /\ total >= 0

\* C25: every confirmed order, in _confirmed_orders and in the orders table,
\* has total = subtotal + delivery_fee - discount, delivery_fee 0 when it is
\* a pickup order and 0 <= discount <= subtotal, so its total is neither
\* below the delivery fee nor negative.
C25_ConfirmedTotalsAddUp ==
  /\ \A i \in DOMAIN _confirmed_orders :
       AmountsAddUp(_confirmed_orders[i].order_type, _confirmed_orders[i].subtotal,
                    _confirmed_orders[i].delivery_fee,
                    _confirmed_orders[i].discount, _confirmed_orders[i].total)
  /\ \A i \in DOMAIN db.orders :
       AmountsAddUp(db.orders[i].order_type, db.orders[i].subtotal,
                    db.orders[i].delivery_fee, db.orders[i].discount_amount,
                    db.orders[i].total)

\* the orders CheckoutAgent._create_order has written add up
CreatedTotalsAddUp ==
  \A i \in DOMAIN db.orders :
    AmountsAddUp(db.orders[i].order_type, db.orders[i].subtotal,
                 db.orders[i].delivery_fee, db.orders[i].discount_amount,
                 db.orders[i].total)

\* C26: a turn in which the language-model call of the agent fails (the
\* call, and a retry of it, raise) leaves the FSM state of the session as it
\* was at the start of the turn.  Stated for the turns that start past intent
\* detection, where the agent's call is the only one of the turn.
C26_FailedLlmKeepsState ==
  (TurnRan /\ last_turn.llm_raised /\ last_turn.loaded \notin {"S0_INIT", "S1_INTENT"})
    => /\ last_turn.states = <<>>
       /\ SavedRow.state = last_turn.loaded

(***************************************************************************)
(* The loop of one agent of sawt/graph/workflow.py (SpecLoop): a           *)
(* create_react_agent graph alternates its agent node, which calls the     *)
(* language model, and its tools node, which runs the tool calls the model *)
(* asked for, until the model answers without a tool call.  Each node run  *)
(* is a step; the run may take recursion_limit steps.  The order and the   *)
(* checkout agent are invoked with a recursion_limit of their own; the     *)
(* greeting and the location agent are invoked with no config, so their    *)
(* limit is not set by call_greeting_agent or call_location_agent: it is   *)
(* the one the outer graph.invoke was given, in main.py or in app.py.      *)
(***************************************************************************)
order_recursion_limit == 8
checkout_recursion_limit == 15
app_recursion_limit == 25

GraphAgents == {"greeting", "location", "order", "checkout"}

AgentTools(agent) ==
  CASE agent = "location" -> {"check_delivery_district", "set_order_type"}
    [] agent = "order" -> {"search_menu", "get_item_details", "add_to_order",
                           "get_current_order", "update_order_item",
                           "remove_from_order"}
    [] agent = "checkout" -> {"calculate_total", "confirm_order", "get_current_order"}
    [] OTHER -> {}

RecursionLimits(agent) ==
  CASE agent = "order" -> {order_recursion_limit}
    [] agent = "checkout" -> {checkout_recursion_limit}
    [] OTHER -> {graph_recursion_limit, app_recursion_limit}

NoLoop ==
  [agent |-> "greeting", limit |-> graph_recursion_limit, steps |-> 0,
   node |-> "agent", tool |-> "none", status |-> "idle", raised |-> FALSE,
   reply |-> "none"]

InitLoop ==
  /\ InitStores
  /\ InitCart
  /\ lookup = NoLoop

\* <agent>_agent.invoke({"messages": ...}) or .invoke(..., {"recursion_limit": n})
AgentInvoke ==
  \E agent \in GraphAgents :
    \E limit \in RecursionLimits(agent) :
      /\ lookup.status # "running"
      /\ lookup' = [NoLoop EXCEPT !.agent = agent, !.limit = limit,
                                  !.status = "running"]
      /\ UNCHANGED <<orchVars, db, graphVars, tool_call, agent_session, tool_result>>

\* the agent node: the model asks for a tool of the agent or gives its answer
AgentNode ==
  /\ lookup.status = "running" /\ lookup.node = "agent"
  /\ lookup.steps < lookup.limit
  /\ \/ \E tool \in AgentTools(lookup.agent) :
          lookup' = [lookup EXCEPT !.steps = @ + 1, !.node = "tools", !.tool = tool]
     \/ lookup' = [lookup EXCEPT !.steps = @ + 1, !.status = "answered",
                                 !.reply = "answer"]
  /\ UNCHANGED <<orchVars, db, graphVars, tool_call, agent_session, tool_result>>

\* the tools node
ToolsNode ==
  /\ lookup.status = "running" /\ lookup.node = "tools"
  /\ lookup.steps < lookup.limit
  /\ lookup' = [lookup EXCEPT !.steps = @ + 1, !.node = "agent"]
  /\ UNCHANGED <<orchVars, db, graphVars, tool_call, agent_session, tool_result>>

\* the steps are used up and the model has not answered: the run either
\* raises GraphRecursionError, which call_<agent>_agent and the graph pass on
\* to process_message, whose except branch returns its apology, or stops with
\* a message saying that more steps are needed
HitRecursionLimit ==
  /\ lookup.status = "running"
  /\ lookup.steps = lookup.limit
  /\ \E raised \in BOOLEAN :
       lookup' = [lookup EXCEPT !.status = "cap", !.raised = raised,
                                !.reply = "fallback"]
  /\ UNCHANGED <<orchVars, db, graphVars, tool_call, agent_session, tool_result>>

NextLoop ==
  \/ AgentInvoke
  \/ AgentNode
  \/ ToolsNode
  \/ HitRecursionLimit

SpecLoop == InitLoop /\ [][NextLoop]_vars

\* the caps the loop of each agent is to have
StepCap(agent) ==
  CASE agent = "order" -> 8
    [] agent = "checkout" -> 15
    [] OTHER -> 6

\* C28: the loop of the location and of the greeting agent runs at most 6
\* steps, that of the order agent at most 8 and that of the checkout agent at
\* most 15, and a run that uses up its steps ends with a fallback message.
C28_LoopWithinCap ==
  /\ lookup.steps <= StepCap(lookup.agent)
  /\ lookup.status = "cap" => lookup.reply = "fallback"

IntentStep == IF last_turn.loaded = "S0_INIT" THEN 2 ELSE 1

\* C29: when the intent model fails, or returns an intent that is not one of
\* ordering, complaint, inquiry and other, the intent step of the turn fires
\* intent_ordering and moves S1_INTENT to S2_GREETING, never to S_FALLBACK or
\* S_COMPLAINT.
C29_UnparsedIntentIsOrdering ==
  (/\ TurnRan
   /\ last_turn.intent_llm # NoIntentCall
   /\ last_turn.intent_llm.raised \/ last_turn.intent_llm.intent \notin Intent)
    => /\ Len(last_turn.states) >= IntentStep
       /\ last_turn.triggers[IntentStep] = "intent_ordering"
       /\ last_turn.states[IntentStep] = "S2_GREETING"

(***************************************************************************)
(* Coverage lookup by name: check_delivery_district of                     *)
(* sawt/tools/location_tools.py and coverage_check of                      *)
(* sawt/mcp_server/tools/coverage.py with normalize_area_name of           *)
(* sawt/utils/arabic_utils.py.  A name is the sequence of its letters:     *)
(* "a" is the plain alef and "A" an alef with hamza, "t" the teh marbuta   *)
(* and "h" the heh, "_" the tatweel and "~" a diacritic.                   *)
(***************************************************************************)
NARJIS == <<"n", "r", "j", "s">>
ALNARJIS == <<"a", "l">> \o NARJIS
HAY == <<"H", "y", " ">>
MANTIQA == <<"m", "n", "T", "q", "t", " ">>
SHARI == <<"x", "a", "r", "e", " ">>
TARIQ == <<"T", "r", "y", "q", " ">>
YASMIN == <<"y", "a", "s", "m", "y", "n">>
ALYASMIN == <<"a", "l">> \o YASMIN

\* the dictionary in its order; the model keeps two of the districts
COVERED_DISTRICTS ==
  <<[name |-> HAY \o ALNARJIS, delivery_fee |-> 1500],
    [name |-> ALNARJIS, delivery_fee |-> 1500],
    [name |-> HAY \o ALYASMIN, delivery_fee |-> 1500],
    [name |-> ALYASMIN, delivery_fee |-> 1500]>>

\* part in text
Contains(text, part) ==
  \E i \in 0..(Len(text) - Len(part)) : SubSeq(text, i + 1, i + Len(part)) = part

\* str.strip(): the spaces at the two ends go, those inside stay
StripEnds(text) ==
  LET kept == {i \in 1..Len(text) : text[i] # " "}
  IN  IF kept = {} THEN <<>>
      ELSE SubSeq(text, CHOOSE i \in kept : \A k \in kept : i <= k,
                        CHOOSE i \in kept : \A k \in kept : i >= k)

\* the first n entries of a list
FirstN(list, n) == SubSeq(list, 1, IF Len(list) < n THEN Len(list) ELSE n)

\* check_delivery_district(district): covered, delivery_fee, suggestions
check_delivery_district(district) ==
  LET district_clean == StripEnds(district)
      keys == {i \in 1..Len(COVERED_DISTRICTS) :
                 COVERED_DISTRICTS[i].name = district_clean}
      suggestions ==
        SelectSeq([i \in 1..Len(COVERED_DISTRICTS) |-> COVERED_DISTRICTS[i].name],
                  LAMBDA d : Contains(d, district_clean) \/ Contains(district_clean, d))
  IN  IF keys # {}
        THEN [covered |-> TRUE,
              delivery_fee |-> COVERED_DISTRICTS[CHOOSE i \in keys : TRUE].delivery_fee,
              suggestions |-> <<>>]
        ELSE [covered |-> FALSE, delivery_fee |-> 0,
              suggestions |-> FirstN(suggestions, 3)]

\* clean_arabic_text(text)
clean_arabic_text(text) ==
  Strip(RemoveChars(
          ReplaceAll(ReplaceAll(RemoveChars(text, {"~"}), ("A" :> "a")),
                     ("t" :> "h")),
          {"_"}))

\* the prefixes of normalize_area_name, tried one after the other
AreaPrefixes == <<HAY, MANTIQA, SHARI, TARIQ>>

RECURSIVE RemovePrefixes(_, _)
RemovePrefixes(name, prefixes) ==
  IF prefixes = <<>> THEN name
  ELSE RemovePrefixes(IF StartsWith(name, Head(prefixes))
                        THEN Drop(name, Len(Head(prefixes)))
                        ELSE name,
                      Tail(prefixes))

normalize_area_name(name) ==
  StripEnds(RemovePrefixes(clean_arabic_text(name), AreaPrefixes))

\* the name the rows of covered_areas carry for a spelling; a spelling no row
\* holds or contains is "mars"
AreaKey(name) ==
  CASE name = HAY \o ALNARJIS -> "hay alnarjis"
    [] name = ALNARJIS -> "alnarjis"
    [] name = NARJIS -> "narjis"
    [] OTHER -> "mars"

\* coverage_check(area_name): is_covered and the kind of the answer
coverage_check(area_name) ==
  LET normalized == normalize_area_name(area_name)
      out == check_coverage(AreaKey(StripEnds(normalized)))
  IN  [is_covered |-> out.covered, kind |-> out.kind]

\* ---- specification SpecCoverage: the two lookups on spellings ----
DistrictBases == {ALNARJIS, NARJIS, <<"A", "l">> \o NARJIS, ALYASMIN,
                  <<"m", "r", "x">>}
DistrictPrefixes == {<<>>, HAY, MANTIQA, SHARI, TARIQ}
DistrictPaddings == {<<<<>>, <<>>>>, <<<<" ">>, <<>>>>, <<<<>>, <<" ">>>>}
DistrictInputs ==
  {pad[1] \o prefix \o base \o pad[2] :
     pad \in DistrictPaddings, prefix \in DistrictPrefixes, base \in DistrictBases}

CoverageLookup(kind, district, covered, suggested) ==
  [kind |-> kind, district |-> district, covered |-> covered,
   suggested |-> suggested]

NoCoverageLookup == CoverageLookup("none", <<>>, FALSE, FALSE)

InitCoverage ==
  /\ InitStores
  /\ InitCart
  /\ lookup = NoCoverageLookup

CheckDeliveryDistrict ==
  \E district \in DistrictInputs :
    \E out \in {check_delivery_district(district)} :
      /\ lookup' = CoverageLookup("check_delivery_district", district, out.covered,
                                  out.suggestions # <<>>)
      /\ UNCHANGED <<orchVars, db, graphVars, tool_call, agent_session, tool_result>>

CoverageCheck ==
  \E area_name \in DistrictInputs :
    \E out \in {coverage_check(area_name)} :
      /\ lookup' = CoverageLookup("coverage_check", area_name, out.is_covered,
                                  out.kind = "suggestions")
      /\ UNCHANGED <<orchVars, db, graphVars, tool_call, agent_session, tool_result>>

NextCoverage ==
  \/ CheckDeliveryDistrict
  \/ CoverageCheck

SpecCoverage == InitCoverage /\ [][NextCoverage]_vars

\* the three spellings of the district
NarjisSpellings == {HAY \o ALNARJIS, ALNARJIS, NARJIS}

\* C30: a lookup of 'hay alnarjis', of 'alnarjis' or of 'narjis' reports the
\* district covered, in check_delivery_district and in coverage_check alike.
C30_NarjisSpellingsCovered ==
  (/\ lookup.kind \in {"check_delivery_district", "coverage_check"}
   /\ lookup.district \in NarjisSpellings)
    => lookup.covered

\* coverage_check alone reports the three spellings covered
CoverageCheckCoversSpellings ==
  (lookup.kind = "coverage_check" /\ lookup.district \in NarjisSpellings)
    => lookup.covered

(***************************************************************************)
(* normalize_numerals on its own (SpecNumerals): every text of up to       *)
(* MaxText characters over a few digits of the three scripts and a letter  *)
(***************************************************************************)
MaxText == 3

NumeralChars == {"ar0", "ar5", "fa5", "fa9", "5", "x"}

RECURSIVE TextsUpTo(_)
TextsUpTo(n) ==
  IF n = 0 THEN {<<>>}
  ELSE TextsUpTo(n - 1) \cup
       {Append(t, c) : t \in {u \in TextsUpTo(n - 1) : Len(u) = n - 1},
                       c \in NumeralChars}

NumeralLookup(text, once, twice, done) ==
  [text |-> text, once |-> once, twice |-> twice, done |-> done]

InitNumerals ==
  /\ InitStores
  /\ InitCart
  /\ lookup \in {NumeralLookup(t, <<>>, <<>>, FALSE) : t \in TextsUpTo(MaxText)}

\* normalize_numerals(text) and normalize_numerals of its result
NormalizeNumerals ==
  /\ ~lookup.done
  /\ lookup' = NumeralLookup(lookup.text, normalize_numerals(lookup.text),
                             normalize_numerals(normalize_numerals(lookup.text)),
                             TRUE)
  /\ UNCHANGED <<orchVars, db, graphVars, tool_call, agent_session, tool_result>>

NextNumerals == NormalizeNumerals

SpecNumerals == InitNumerals /\ [][NextNumerals]_vars

\* the digits of the three scripts, by value
IndicDigit == <<"ar0", "ar1", "ar2", "ar3", "ar4", "ar5", "ar6", "ar7", "ar8", "ar9">>
PersianDigit == <<"fa0", "fa1", "fa2", "fa3", "fa4", "fa5", "fa6", "fa7", "fa8", "fa9">>
AsciiDigit == <<"0", "1", "2", "3", "4", "5", "6", "7", "8", "9">>

\* C31: normalize_numerals turns every Arabic-Indic and every Persian/Urdu
\* digit into the ASCII digit of the same value, leaves every other character
\* as it is, and applied to its own result changes nothing.
C31_NormalizeNumeralsIdempotent ==
  lookup.done =>
    /\ Len(lookup.once) = Len(lookup.text)
    /\ \A i \in 1..Len(lookup.text) :
         /\ \A k \in 1..10 :
              (lookup.text[i] = IndicDigit[k] \/ lookup.text[i] = PersianDigit[k])
                => lookup.once[i] = AsciiDigit[k]
         /\ (\A k \in 1..10 : lookup.text[i] # IndicDigit[k]
                              /\ lookup.text[i] # PersianDigit[k])
              => lookup.once[i] = lookup.text[i]
    /\ lookup.twice = lookup.once

\* a text with a digit of each of the two scripts and a letter has been normalized
C31_Witness_MixedScripts ==
  /\ lookup.done
  /\ lookup.text = <<"ar5", "x", "fa9">>
  /\ lookup.once = <<"5", "x", "9">>

\* C32: a turn that loads a session in S6_FINALIZED fires start and takes it
\* to S1_INTENT, so the session is not left in S6_FINALIZED.
C32_FinalizedStartsAnew ==
  (TurnRan /\ last_turn.loaded = "S6_FINALIZED")
    => /\ Len(last_turn.states) >= 1
       /\ last_turn.triggers[1] = "start"
       /\ last_turn.states[1] = "S1_INTENT"
       /\ SavedRow.state # "S6_FINALIZED"

\* the last turn was a checkout turn on a session of the given order type that
\* has a cart, ends with a valid name and phone, and in which the customer
\* confirmed while the database was up
ConfirmedCheckoutOf(order_type) ==
  /\ TurnRan
  /\ last_turn.loaded = "S5_CHECKOUT"
  /\ last_turn.confirm_asked
  /\ last_turn.saved.order_type = order_type
  /\ last_turn.saved.cart # <<>>
  /\ last_turn.saved.customer_name # <<>>
  /\ last_turn.saved.customer_phone # <<>>

OrderCreatedFor(session_id) ==
  \E i \in 1..Len(db.orders) : db.orders[i].session_id = session_id

\* C33: a delivery session that left LOCATION by address_valid and is in
\* S5_CHECKOUT with a cart completes its order: the turn in which the customer
\* has given a valid name and phone and confirms creates the order and saves
\* S6_FINALIZED.
C33_DeliveryOrderCompletes ==
  (ConfirmedCheckoutOf("delivery") /\ SavedRow.delivery_area_id # NullId)
    => /\ SavedRow.state = "S6_FINALIZED"
       /\ OrderCreatedFor(last_turn.session_id)

\* the same turn of a pickup session does create the order
PickupOrderCompletes ==
  ConfirmedCheckoutOf("pickup")
    => /\ SavedRow.state = "S6_FINALIZED"
       /\ OrderCreatedFor(last_turn.session_id)

\* no order of type delivery is ever written by the orchestrator
NoDeliveryOrder ==
  \A i \in 1..Len(db.orders) : db.orders[i].order_type # "delivery"

(***************************************************************************)
(* The tool cart under the turns of two chats (SpecIsolation).             *)
(* process_message(session_id, ...) keeps the graph state of a chat under  *)
(* its session_id, but neither the graph nor the agent nodes hand that id  *)
(* to the tools: a tool call carries the session_id the model wrote, and   *)
(* the parameter defaults to "default".  lookup.own[s] is the cart the     *)
(* calls of chat s alone have built, seen is the subtotal the last reading *)
(* call found and expected the subtotal of the chat's own cart.            *)
(***************************************************************************)
MaxChatCalls == 4

ChatSessionIds == {"a", "b"}

ChatItemArgs == {1, 2}

NoIsolation ==
  [session |-> "none", kind |-> "none", own |-> [s \in ChatSessionIds |-> <<>>],
   seen |-> 0, expected |-> 0, calls |-> 0]

InitIsolation ==
  /\ InitStores
  /\ InitCart
  /\ lookup = NoIsolation

\* the store the tools would work on if the cart held only the chat's own lines
OwnStore(chat, session_id) == [_orders EXCEPT ![session_id] = lookup.own[chat]]

ChatCall(chat, kind, own_cart, seen) ==
  [session |-> chat, kind |-> kind,
   own |-> [lookup.own EXCEPT ![chat] = own_cart],
   seen |-> seen, expected |-> SumLines(lookup.own[chat]),
   calls |-> lookup.calls + 1]

otherChatVars ==
  <<_sessions, _order_type_store, run, owes_checkout, last_call, orchVars,
    tool_call, agent_session, tool_result>>

ChatAddToOrder ==
  \E chat \in ChatSessionIds, item_id \in ChatItemArgs, session_id \in ToolSessionIds :
    \E out \in {add_to_order(_orders, item_id, 1, "", session_id)} :
      /\ lookup.calls < MaxChatCalls
      /\ _orders' = out.orders
      /\ lookup' =
           ChatCall(chat, "add_to_order",
                    add_to_order(OwnStore(chat, session_id), item_id, 1, "",
                                 session_id).orders[session_id],
                    0)
      /\ UNCHANGED <<otherChatVars, _confirmed_orders, db>>

ChatUpdateOrderItem ==
  \E chat \in ChatSessionIds, item_id \in ChatItemArgs, quantity \in {0, 2},
     session_id \in ToolSessionIds :
    \E out \in {update_order_item(_orders, item_id, <<quantity>>, <<>>, session_id)} :
      /\ lookup.calls < MaxChatCalls
      /\ _orders' = out.orders
      /\ lookup' =
           ChatCall(chat, "update_order_item",
                    update_order_item(OwnStore(chat, session_id), item_id,
                                      <<quantity>>, <<>>, session_id).orders[session_id],
                    0)
      /\ UNCHANGED <<otherChatVars, _confirmed_orders, db>>

ChatRemoveFromOrder ==
  \E chat \in ChatSessionIds, item_id \in ChatItemArgs, session_id \in ToolSessionIds :
    \E out \in {remove_from_order(_orders, item_id, session_id)} :
      /\ lookup.calls < MaxChatCalls
      /\ _orders' = out.orders
      /\ lookup' =
           ChatCall(chat, "remove_from_order",
                    remove_from_order(OwnStore(chat, session_id), item_id,
                                      session_id).orders[session_id],
                    0)
      /\ UNCHANGED <<otherChatVars, _confirmed_orders, db>>

ChatGetCurrentOrder ==
  \E chat \in ChatSessionIds, session_id \in ToolSessionIds :
    \E out \in {get_current_order(_orders, session_id)} :
      /\ lookup.calls < MaxChatCalls
      /\ lookup' = ChatCall(chat, "get_current_order", lookup.own[chat], out.subtotal)
      /\ UNCHANGED <<otherChatVars, _orders, _confirmed_orders, db>>

ChatCalculateTotal ==
  \E chat \in ChatSessionIds, session_id \in ToolSessionIds :
    \E out \in {calculate_total(_orders, session_id, 0, <<>>)} :
      /\ lookup.calls < MaxChatCalls
      /\ lookup' = ChatCall(chat, "calculate_total", lookup.own[chat], out.subtotal)
      /\ UNCHANGED <<otherChatVars, _orders, _confirmed_orders, db>>

\* confirm_order of a pickup order with a name and a phone: it confirms what
\* the cart holds, or refuses an empty cart
ChatConfirmOrder ==
  \E chat \in ChatSessionIds, session_id \in ToolSessionIds :
    \E out \in {confirm_order(_orders, _confirmed_orders, db,
                              ConfirmArgs(session_id, NAME_ALI, PHONE_LOCAL, "", 0, 0,
                                          "pickup"),
                              TRUE)} :
      /\ lookup.calls < MaxChatCalls
      /\ Len(out.confirmed) <= MaxOrders
      /\ _orders' = out.orders
      /\ _confirmed_orders' = out.confirmed
      /\ db' = out.db
      /\ lookup' =
           ChatCall(chat, "confirm_order",
                    IF lookup.own[chat] = <<>> THEN <<>>
                    ELSE clear_session_order(OwnStore(chat, session_id),
                                             session_id)[session_id],
                    IF out.success THEN out.confirmed[Len(out.confirmed)].subtotal
                    ELSE 0)
      /\ UNCHANGED otherChatVars

NextIsolation ==
  \/ ChatAddToOrder
  \/ ChatUpdateOrderItem
  \/ ChatRemoveFromOrder
  \/ ChatGetCurrentOrder
  \/ ChatCalculateTotal
  \/ ChatConfirmOrder

SpecIsolation == InitIsolation /\ [][NextIsolation]_vars

\* C34: what get_current_order, calculate_total and confirm_order find in a
\* turn of one chat is the cart that chat's own calls have built: the calls
\* of another chat never change it.
C34_CartsIsolated ==
  lookup.kind \in {"get_current_order", "calculate_total", "confirm_order"}
    => lookup.seen = lookup.expected

\* C35: whatever add_to_order, update_order_item and remove_from_order calls
\* have been made, a cart holds at most one line for each pair of item_id and
\* notes.
C35_OneLinePerItemAndNotes ==
  \A session_id \in ToolSessionIds :
    \A i, j \in 1..Len(_orders[session_id]) :
      (/\ _orders[session_id][i].item_id = _orders[session_id][j].item_id
       /\ _orders[session_id][i].notes = _orders[session_id][j].notes)
        => i = j

\* the lines of the other items, in their order
OtherLines(order, item_id) == SelectSeq(order, LAMBDA e : e.item_id # item_id)

\* C36: update_order_item(item_id, ...) and remove_from_order(item_id) leave
\* every line of another item as it was, whatever quantity and notes are given.
C36_OtherLinesKept ==
  tool_result.kind \in {"update_order_item", "remove_from_order"}
    => \A session_id \in ToolSessionIds :
         OtherLines(_orders[session_id], tool_result.item_id)
           = OtherLines(tool_result.before, tool_result.item_id)

\* remove_from_order alone leaves the lines of the other items as they were
RemoveKeepsOtherLines ==
  tool_result.kind = "remove_from_order"
    => \A session_id \in ToolSessionIds :
         OtherLines(_orders[session_id], tool_result.item_id)
           = OtherLines(tool_result.before, tool_result.item_id)

(***************************************************************************)
(* Checkouts with one promo code that has a usage_limit (SpecPromoRace).   *)
(* CheckoutAgent._create_order and the create_order tool of                *)
(* sawt/mcp_server/tools/order.py await validate_promo, then               *)
(* get_promo_by_code, then increment_usage, each on a connection of its    *)
(* own, so the checkouts of different sessions interleave between the      *)
(* awaits.  promo_usage is the usage_count column; lookup holds the limit  *)
(* of the row and where each checkout stands.                              *)
(***************************************************************************)
MaxRaceUsage == 4

Checkouts == {1, 2}

RaceCode == "WELCOME10"

RaceSubtotal == PROMO_CODES[RaceCode].min_order_amount

\* the row of the code as the checkout reads it now
RacePromo(usage, usage_limit) ==
  [found |-> TRUE,
   row |-> [PROMO_CODES[RaceCode] EXCEPT !.usage_limit = usage_limit],
   usage_count |-> usage[RaceCode]]

NoRace(usage_limit) ==
  [usage_limit |-> usage_limit,
   pc |-> [p \in Checkouts |-> "idle"],
   path |-> [p \in Checkouts |-> "agent"],
   is_valid |-> [p \in Checkouts |-> FALSE]]

InitPromoRace ==
  /\ InitStores
  /\ InitCart
  /\ lookup \in {NoRace(usage_limit) : usage_limit \in {1, 2}}

otherRaceVars ==
  <<sessions, db, last_turn, in_flight, turn_log, graphVars, tool_call,
    agent_session, tool_result>>

\* "is_valid, disc, _ = await PromoRepository.validate_promo(...)" of
\* _create_order, or the same call inside compute_totals of create_order
RaceValidatePromo(p) ==
  \E path \in {"agent", "mcp"} :
    \E check \in {validate_promo_of(RacePromo(promo_usage, lookup.usage_limit),
                                    RaceSubtotal)} :
      /\ lookup.pc[p] = "idle"
      /\ promo_usage[RaceCode] < MaxRaceUsage
      /\ lookup' = [lookup EXCEPT !.pc[p] = "validated", !.path[p] = path,
                                  !.is_valid[p] = check.valid]
      /\ UNCHANGED <<promo_usage, otherRaceVars>>

\* "promo = await PromoRepository.get_promo_by_code(...)": _create_order
\* reaches it only "if is_valid", create_order whenever the session has a code
RaceGetPromo(p) ==
  /\ lookup.pc[p] = "validated"
  /\ lookup' = [lookup EXCEPT !.pc[p] =
                  IF lookup.path[p] = "mcp" \/ lookup.is_valid[p]
                    THEN "fetched" ELSE "done"]
  /\ UNCHANGED <<promo_usage, otherRaceVars>>

\* "await PromoRepository.increment_usage(...)"
RaceIncrementUsage(p) ==
  /\ lookup.pc[p] = "fetched"
  /\ promo_usage' = increment_usage(promo_usage, RaceCode)
  /\ lookup' = [lookup EXCEPT !.pc[p] = "done"]
  /\ UNCHANGED otherRaceVars

\* the checkout of one more session
RaceNextSession(p) ==
  /\ lookup.pc[p] = "done"
  /\ lookup' = [lookup EXCEPT !.pc[p] = "idle", !.is_valid[p] = FALSE]
  /\ UNCHANGED <<promo_usage, otherRaceVars>>

NextPromoRace ==
  \/ \E p \in Checkouts : RaceValidatePromo(p)
  \/ \E p \in Checkouts : RaceGetPromo(p)
  \/ \E p \in Checkouts : RaceIncrementUsage(p)
  \/ \E p \in Checkouts : RaceNextSession(p)

SpecPromoRace == InitPromoRace /\ [][NextPromoRace]_vars

\* C37: the usage_count of a promo code never exceeds its usage_limit, however
\* many sessions check out with the code and however their checkouts overlap.
C37_UsageWithinLimit == promo_usage[RaceCode] <= lookup.usage_limit

(***************************************************************************)
(* The amounts of a confirmed checkout (SpecConfirmation):                 *)
(* CheckoutAgent._create_order computes the discount and the total it      *)
(* stores, incrementing the usage of the code, and CheckoutAgent.process   *)
(* then calls validate_promo once more for the amounts of the              *)
(* confirmation message.  has_code is whether the session carries a promo  *)
(* code, promo the row get_promo_by_code fetches before the increment.     *)
(***************************************************************************)
\* lines 218-234 of _create_order: the discount, the total and the
\* usage_count the row has afterwards
CreateOrderAmounts(has_code, promo, subtotal, fee) ==
  LET check == validate_promo_of(promo, subtotal)
      applies == has_code /\ check.valid
      discount == IF applies THEN check.discount ELSE 0
  IN  [discount |-> discount, total |-> subtotal + fee - discount,
       usage_count |-> IF applies /\ promo.found /\ promo.row.is_active
                         THEN promo.usage_count + 1 ELSE promo.usage_count]

\* lines 131-141 of process: the discount and the total of the message
ConfirmationAmounts(has_code, promo, subtotal, fee) ==
  LET check == validate_promo_of(promo, subtotal)
      discount == IF has_code THEN check.discount ELSE 0
  IN  [discount |-> discount, total |-> subtotal + fee - discount]

NoConfirmation ==
  [kind |-> "none", has_code |-> FALSE,
   promo |-> get_promo_by_code([c \in PromoCodeNames |-> 0], "none"),
   subtotal |-> 0, order_type |-> "pickup",
   stored |-> [discount |-> 0, total |-> 0],
   shown |-> [discount |-> 0, total |-> 0]]

InitConfirmation ==
  /\ InitStores
  /\ InitCart
  /\ lookup = NoConfirmation

\* the branch of process that creates the order and formats the confirmation
ConfirmCheckout ==
  \E has_code \in BOOLEAN, promo \in PromoInputs, subtotal \in SubtotalInputs,
     order_type \in OrderTypeArgs :
    \E fee \in {IF order_type = "delivery" THEN delivery_fee ELSE 0} :
      \E created \in {CreateOrderAmounts(has_code, promo, subtotal, fee)} :
        /\ promo.found \/ (promo.usage_count = 0 /\ promo.row = PROMO_CODES["WELCOME10"])
        /\ lookup' =
             [kind |-> "confirmation", has_code |-> has_code, promo |-> promo,
              subtotal |-> subtotal, order_type |-> order_type,
              stored |-> [discount |-> created.discount, total |-> created.total],
              shown |-> ConfirmationAmounts(
                          has_code,
                          [promo EXCEPT !.usage_count = created.usage_count],
                          subtotal, fee)]
        /\ UNCHANGED <<orchVars, db, graphVars, tool_call, agent_session, tool_result>>

NextConfirmation == ConfirmCheckout

SpecConfirmation == InitConfirmation /\ [][NextConfirmation]_vars

\* C38: the discount and the total of the confirmation message are the
\* discount and the total stored in the order the turn has created.
C38_ShownEqualsStored ==
  lookup.kind = "confirmation" => lookup.shown = lookup.stored

\* for a code whose row has no usage_limit the two agree
ShownEqualsStoredWithoutLimit ==
  (lookup.kind = "confirmation" /\ lookup.promo.row.usage_limit = 0)
    => lookup.shown = lookup.stored

(***************************************************************************)
(* calculate_total of the graph tools against PromoRepository.validate_promo *)
(* on the seeded promo_codes rows, for the carts customers fill            *)
(* (SpecPromoAgree).  The seeded rows are active, have no dates and no     *)
(* usage_limit.                                                            *)
(***************************************************************************)
NoAgreement ==
  [kind |-> "none", code |-> "WELCOME10", subtotal |-> 0, tool_discount |-> 0,
   repo_discount |-> 0]

InitPromoAgree ==
  /\ InitStores
  /\ InitCart
  /\ lookup = NoAgreement

\* add_to_order on the cart calculate_total reads
FillCartToCompare ==
  \E item_id \in MenuAvailable, quantity \in 1..MaxAdd, session_id \in ToolSessionIds :
    \E out \in {add_to_order(_orders, item_id, quantity, "", session_id)} :
      /\ LinesWithin(out.orders[session_id])
      /\ _orders' = out.orders
      /\ UNCHANGED <<otherVars, lookup, tool_call, agent_session>>

\* calculate_total(session_id, 0, code) and validate_promo(code, subtotal) on
\* the subtotal of the same cart
ComparePromos ==
  \E code \in PromoCodeNames, session_id \in ToolSessionIds :
    \E tool \in {calculate_total(_orders, session_id, 0, <<code>>)} :
      \E repo \in {validate_promo(promo_usage, code, tool.subtotal)} :
        /\ tool.success
        /\ lookup' = [kind |-> "compare", code |-> code, subtotal |-> tool.subtotal,
                      tool_discount |-> tool.discount,
                      repo_discount |-> repo.discount]
        /\ UNCHANGED <<orchVars, db, graphVars, tool_call, agent_session, tool_result>>

NextPromoAgree ==
  \/ FillCartToCompare
  \/ ComparePromos

SpecPromoAgree == InitPromoAgree /\ [][NextPromoAgree]_vars

\* C39: on each seeded code and every subtotal calculate_total gives the
\* discount PromoRepository.validate_promo gives.
C39_PromoImplementationsAgree ==
  lookup.kind = "compare" => lookup.tool_discount = lookup.repo_discount

\* the two agree on FIRST20 and FREE15
AgreeOnFirst20AndFree15 ==
  (lookup.kind = "compare" /\ lookup.code \in {"FIRST20", "FREE15"})
    => lookup.tool_discount = lookup.repo_discount

\* and on WELCOME10 from its minimum order on
AgreeOnWelcome10FromMinimum ==
  (/\ lookup.kind = "compare"
   /\ lookup.code = "WELCOME10"
   /\ lookup.subtotal >= PROMO_CODES["WELCOME10"].min_order_amount)
    => lookup.tool_discount = lookup.repo_discount

(***************************************************************************)
(* sawt/utils/time_utils.py on every date and hour (SpecClock).  now is    *)
(* the Saudi time as [days_in_month, day, hour]; minutes play no part.     *)
(* datetime.replace(day=d) raises ValueError when the month has no day d.  *)
(* A result is [raised, day, hour], with day and hour 0 when it raised.    *)
(***************************************************************************)
MonthLengths == {28, 29, 30, 31}

ClockHours == 0..23

\* the first day of a month and the days a month can end on
ClockInputs ==
  {now \in [days_in_month : MonthLengths, day : {1, 28, 29, 30, 31},
            hour : ClockHours] :
     now.day <= now.days_in_month}

ClockValue(day, hour) == [raised |-> FALSE, day |-> day, hour |-> hour]

ClockRaised == [raised |-> TRUE, day |-> 0, hour |-> 0]

\* now.replace(hour=hour, minute=0, second=0, microsecond=0).replace(day=day)
ReplaceDay(now, day, hour) ==
  IF day > now.days_in_month THEN ClockRaised ELSE ClockValue(day, hour)

get_next_opening_time(now) ==
  IF now.hour < opening_hour THEN ClockValue(now.day, opening_hour)
  ELSE ReplaceDay(now, now.day + 1, opening_hour)

get_closing_time(now) ==
  IF now.hour >= opening_hour THEN ReplaceDay(now, now.day + 1, closing_hour)
  ELSE ClockValue(now.day, closing_hour)

\* the time the message of get_restaurant_status_message_ar names, if the
\* call it makes does not raise
get_restaurant_status_message_ar(now) ==
  IF is_restaurant_open(now.hour) THEN get_closing_time(now)
  ELSE get_next_opening_time(now)

\* GreeterAgent.process up to the call of the model: _build_messages asks
\* get_system_prompt for the prompt, outside the try block
GreeterBuildMessages(now) == get_restaurant_status_message_ar(now)

ClockLookup(kind, now, out) ==
  [kind |-> kind, now |-> now, raised |-> out.raised, day |-> out.day,
   hour |-> out.hour]

NoClock ==
  ClockLookup("none", [days_in_month |-> 31, day |-> 1, hour |-> 0], ClockValue(0, 0))

InitClock ==
  /\ InitStores
  /\ InitCart
  /\ lookup = NoClock

GetNextOpeningTime ==
  \E now \in ClockInputs :
    /\ lookup' = ClockLookup("get_next_opening_time", now, get_next_opening_time(now))
    /\ UNCHANGED <<orchVars, db, graphVars, tool_call, agent_session, tool_result>>

GetClosingTime ==
  \E now \in ClockInputs :
    /\ lookup' = ClockLookup("get_closing_time", now, get_closing_time(now))
    /\ UNCHANGED <<orchVars, db, graphVars, tool_call, agent_session, tool_result>>

GetRestaurantStatusMessage ==
  \E now \in ClockInputs :
    /\ lookup' = ClockLookup("get_restaurant_status_message_ar", now,
                             get_restaurant_status_message_ar(now))
    /\ UNCHANGED <<orchVars, db, graphVars, tool_call, agent_session, tool_result>>

\* a greeting turn: when building the messages raises, process raises and
\* handle_message returns no reply
GreeterTurn ==
  \E now \in ClockInputs :
    /\ lookup' = ClockLookup("greeter_process", now, GreeterBuildMessages(now))
    /\ UNCHANGED <<orchVars, db, graphVars, tool_call, agent_session, tool_result>>

NextClock ==
  \/ GetNextOpeningTime
  \/ GetClosingTime
  \/ GetRestaurantStatusMessage
  \/ GreeterTurn

SpecClock == InitClock /\ [][NextClock]_vars

\* C40: get_closing_time, get_next_opening_time and
\* get_restaurant_status_message_ar return a value on every date and hour,
\* the last day of a month included, so a greeting turn never raises while it
\* builds its prompt.
C40_ClockNeverRaises == lookup.kind # "none" => ~lookup.raised

\* on every day but the last of its month none of them raises
ClockRaisesOnLastDayOnly ==
  lookup.raised => lookup.now.day = lookup.now.days_in_month

\* the status message and the greeting turn are safe while the restaurant is
\* closed and in the hours after midnight
StatusSafeBeforeOpening ==
  (/\ lookup.kind \in {"get_restaurant_status_message_ar", "greeter_process"}
   /\ lookup.now.hour < opening_hour)
    => ~lookup.raised

====
